---------------------------- MODULE Spec2Model ----------------------------
(***************************************************************************)
(* Verification model of alexnaef/base_agent.                              *)
(*                                                                         *)
(*  Spec       the quality-gated phase controller                          *)
(*             (advance_research_phase, both implementations) over one     *)
(*             research brief row and the agent event log                  *)
(*  SpecLoop   the tool-calling loop MCPClient.process_query               *)
(*  SpecParse  JSONParser.parse_response over token strings                *)
(***************************************************************************)
EXTENDS Integers, Sequences, FiniteSets, TLC

(***************************************************************************)
(* Bounds of the model.                                                    *)
(***************************************************************************)
\* most research_queries rows of the brief
MaxQueries == 10
\* most verified research_items rows of the brief
MaxItems == 6

(***************************************************************************)
(* State.                                                                  *)
(***************************************************************************)
VARIABLES
    \* the phase controller
    status,      \* research_briefs.status of the brief ("none": no such row)
    rows,        \* counts of the brief's research_queries and research_items rows
    events,      \* agent_events rows of the brief, in insertion order
    changes,     \* history: the status changes committed by advance, in order
    reply,       \* what the last invocation returned to its caller
    lastOp,      \* history: the last operation and its arguments
    \* JSONParser.parse_response
    p_pc,        \* where parse_response stands: "idle", "call", "strategy1",
                 \* "strategy2", "strategy3", "returned", "raised"
    p_text,      \* the response argument
    p_kind,      \* the expected_type argument
    p_result,    \* the value returned or the JSONParsingError raised
    p_tried,     \* history: the strategies run so far, each with its outcome
    \* MCPClient.process_query
    l_pc,        \* "idle", "start", "planning", "executing", "final", "done", "aborted"
    model,       \* the behaviour of the generation model and of the tools in this run
    messages,    \* the conversation handed to the model
    loop_counter,
    tool_calls,  \* the function_call events of this iteration not yet executed
    llm_calls,   \* history: the responses.create calls made, in order
    final_input, \* history: the input of the final-model call
    invocations, \* history: the session.call_tool calls made, in order
    rounds,      \* history: planning responses that requested tools
    loop_exit,   \* history: how the while loop ended, "break" or "bound"
    returned,    \* what process_query returned to its caller
    cancelled,   \* environment: the caller's deadline has passed or it asked to stop
    \* QueryService
    queries,     \* research_queries.status of the brief's rows, in insertion order
    q_lastOp,    \* history: the last query operation and its arguments
    \* the export of a tool descriptor to the model
    s_pc,        \* "idle", "listed", "exported"
    s_schema,    \* tool.inputSchema as the server lists it
    s_tool,      \* the entry appended to available_tools
    \* ReportGeneratorTool._assess_research_quality
    r_pc,        \* "idle", "call", "returned"
    r_args,      \* the three summaries, and how the interpreter sums floats
    r_quality,   \* the label returned
    \* advance invocations that run at the same time
    a_calls      \* each invocation: where it stands, its arguments, its locals

phaseVars == <<status, rows, events, changes, reply, lastOp>>
parseVars == <<p_pc, p_text, p_kind, p_result, p_tried>>
loopVars == <<l_pc, model, messages, loop_counter, tool_calls, llm_calls,
              final_input, invocations, rounds, loop_exit, returned, cancelled>>
queryVars == <<queries, q_lastOp>>
schemaVars == <<s_pc, s_schema, s_tool>>
qualityVars == <<r_pc, r_args, r_quality>>
callVars == <<a_calls>>
vars == <<phaseVars, parseVars, loopVars, queryVars, schemaVars, qualityVars, callVars>>
notPhaseVars == <<parseVars, loopVars, queryVars, schemaVars, qualityVars, callVars>>
notParseVars == <<phaseVars, loopVars, queryVars, schemaVars, qualityVars, callVars>>
notLoopVars == <<phaseVars, parseVars, queryVars, schemaVars, qualityVars, callVars>>
notQueryVars == <<phaseVars, parseVars, loopVars, schemaVars, qualityVars, callVars>>
notSchemaVars == <<phaseVars, parseVars, loopVars, queryVars, qualityVars, callVars>>
notQualityVars == <<phaseVars, parseVars, loopVars, queryVars, schemaVars, callVars>>
notCallVars == <<parseVars, loopVars, queryVars, schemaVars, qualityVars>>

(***************************************************************************)
(* Part 1.  Phase controller.                                              *)
(***************************************************************************)
\* shared/models.py ResearchStatus
PENDING == "pending"
IN_PROGRESS == "in_progress"
COMPLETED == "completed"
FAILED == "failed"
ResearchStatus == {PENDING, IN_PROGRESS, COMPLETED, FAILED}
NoBrief == "none"
None == "None"

\* the literal thresholds of the standalone server
SERVER_COMPLETION_THRESHOLD == 80
SERVER_MIN_VERIFIED_ITEMS == 5
\* AgentConfig.ORCHESTRATOR
ORCH_COMPLETION_THRESHOLD == 80
ORCH_MIN_VERIFIED_ITEMS == 5

ORCHESTRATOR ==
    [completion_threshold |-> ORCH_COMPLETION_THRESHOLD,
     min_verified_items |-> ORCH_MIN_VERIFIED_ITEMS]

EmptyConfig == [k \in {} |-> 0]

\* AgentConfig.get_agent_config: config_map.get(agent_name, {}); the other
\* three agents' entries hold none of the keys the orchestrator tools read.
get_agent_config(agent_name) ==
    IF agent_name = "podcast_orchestrator" THEN ORCHESTRATOR ELSE EmptyConfig

\* PodcastOrchestratorAgent.__init__: super().__init__(name="podcast-orchestrator")
AGENT_NAME == "podcast-orchestrator"
\* BaseAgent.__init__: self.config = AgentConfig.get_agent_config(name)
agent_config == get_agent_config(AGENT_NAME)

\* the agent_name the standalone server writes into its events
SERVER_AGENT_NAME == "podcast_orchestrator"

(***************************************************************************)
(* completion_percentage is the float (completed / total) * 100; it is     *)
(* kept as the exact fraction num/den.  Against the thresholds used here   *)
(* the float comparison and the exact one agree for every row count below  *)
(* 10^15 (5*completed - 4*total is a non-zero integer whenever the ratio   *)
(* is not exactly 4/5).                                                    *)
(***************************************************************************)
Frac(n, d) == [num |-> n, den |-> d]
FracGE(f, k) == f.num >= k * f.den

get_research_progress_mutant_ratio(total_queries, completed_queries, verified_items) ==
    [total_queries |-> total_queries,
     completed_queries |-> completed_queries,
     verified_items |-> verified_items,
     completion_percentage |->
        IF total_queries > 0 THEN Frac(completed_queries, total_queries)
                             ELSE Frac(0, 1)]

\* ResearchService.get_research_progress, from the row counts of the brief
get_research_progress(total_queries, completed_queries, verified_items) ==
    [total_queries |-> total_queries,
     completed_queries |-> completed_queries,
     verified_items |-> verified_items,
     completion_percentage |->
        IF total_queries > 0 THEN Frac(completed_queries * 100, total_queries)
                             ELSE Frac(0, 1)]

Req(text, need, have) == [text |-> text, need |-> need, have |-> have]

Decision(next_phase, ready, reqs, raised) ==
    [next_phase |-> next_phase, ready_to_advance |-> ready,
     requirements_met |-> reqs, raised |-> raised]

GateMetMutantGT(progress, completion_threshold, min_verified_items) ==
    /\ progress.completion_percentage.num
          > completion_threshold * progress.completion_percentage.den
    /\ progress.verified_items >= min_verified_items

\* the quality gate both implementations evaluate
GateMet(progress, completion_threshold, min_verified_items) ==
    /\ FracGE(progress.completion_percentage, completion_threshold)
    /\ progress.verified_items >= min_verified_items

InProgressDecision(progress, force_advance, completion_threshold, min_verified_items) ==
    IF GateMet(progress, completion_threshold, min_verified_items) \/ force_advance
    THEN Decision(COMPLETED, TRUE,
            <<Req("Query completion", 0, progress.completion_percentage),
              Req("Verified items", 0, Frac(progress.verified_items, 1))>>,
            None)
    ELSE Decision(None, FALSE,
            <<Req("Need query completion", completion_threshold,
                  progress.completion_percentage),
              Req("Need verified items", min_verified_items,
                  Frac(progress.verified_items, 1)),
              Req("Consider running more research cycles", 0, Frac(0, 1))>>,
            None)

PendingDecisionMutantSkips ==
    Decision(COMPLETED, TRUE,
             <<Req("Brief created and validated", 0, Frac(0, 1))>>, None)

\* next_phase = ResearchStatus.IN_PROGRESS; ready_to_advance = True
PendingDecision ==
    Decision(IN_PROGRESS, TRUE,
             <<Req("Brief created and validated", 0, Frac(0, 1))>>, None)

NoDecisionMutantReady == Decision(None, TRUE, <<>>, None)

\* next_phase = None; ready_to_advance = False; requirements_met = []
NoDecision == Decision(None, FALSE, <<>>, None)

ServerPhaseLogicMutantElse(current_status, progress, force_advance) ==
    IF current_status = PENDING THEN PendingDecision
    ELSE InProgressDecision(progress, force_advance,
                            SERVER_COMPLETION_THRESHOLD, SERVER_MIN_VERIFIED_ITEMS)

\* server.py advance_research_phase, "Define phase advancement logic"
ServerPhaseLogic(current_status, progress, force_advance) ==
    IF current_status = PENDING THEN PendingDecision
    ELSE IF current_status = IN_PROGRESS
    THEN InProgressDecision(progress, force_advance,
                            SERVER_COMPLETION_THRESHOLD, SERVER_MIN_VERIFIED_ITEMS)
    ELSE NoDecision

\* StatusMonitorTool.advance_phase, "Define phase advancement logic": the
\* thresholds are read from self.agent.config, a KeyError when the key is absent
ToolPhaseLogic(current_status, progress, force_advance) ==
    IF current_status = PENDING THEN PendingDecision
    ELSE IF current_status = IN_PROGRESS
    THEN IF "completion_threshold" \notin DOMAIN agent_config
         THEN Decision(None, FALSE, <<>>, "KeyError: 'completion_threshold'")
         ELSE IF "min_verified_items" \notin DOMAIN agent_config
         THEN Decision(None, FALSE, <<>>, "KeyError: 'min_verified_items'")
         ELSE InProgressDecision(progress, force_advance,
                                 agent_config["completion_threshold"],
                                 agent_config["min_verified_items"])
    ELSE NoDecision


(***************************************************************************)
(* Responses and events.                                                   *)
(***************************************************************************)
Resp(kind, agent, phase_changed, old_phase, new_phase, current_phase, ready, reqs, err) ==
    [kind |-> kind, agent |-> agent, phase_changed |-> phase_changed,
     old_phase |-> old_phase, new_phase |-> new_phase,
     current_phase |-> current_phase, ready_to_advance |-> ready,
     requirements_met |-> reqs, error |-> err]

NoResponse == Resp("none", None, FALSE, None, None, None, FALSE, <<>>, None)

\* server.py: {"error": str(e), "message": "Failed to advance research phase"}
ServerError(err) ==
    Resp("error", None, FALSE, None, None, None, FALSE, <<>>, err)

\* BaseAgent.create_error_response
create_error_response(err) ==
    Resp("error", AGENT_NAME, FALSE, None, None, None, FALSE, <<>>, err)

\* the phase_advanced row handed to EventService.log_event
PhaseAdvancedEvent(agent_name, old_status, new_status, progress) ==
    [event_type |-> "phase_advanced", agent_name |-> agent_name,
     old_status |-> old_status, new_status |-> new_status,
     progress_metrics |-> progress]

Op(name, force_advance, fault) ==
    [name |-> name, force_advance |-> force_advance, fault |-> fault]

Change(old_status, new_status) == [old |-> old_status, new |-> new_status]

\* where a database transaction of the invocation fails (session_scope rolls
\* back and re-raises); "none": every transaction commits
Faults == {"none", "get_brief", "update_brief_status", "log_event"}

RowCounts ==
    {r \in [total : 0..MaxQueries, completed : 0..MaxQueries, verified : 0..MaxItems] :
        r.completed <= r.total}

(***************************************************************************)
(* Operations.  The research_queries and research_items rows of the brief  *)
(* are written by the other agents; the controller only reads them, and a  *)
(* behaviour fixes what they have written.                                 *)
(***************************************************************************)
\* ResearchService.create_brief: the status column defaults to PENDING
create_brief ==
    /\ status = NoBrief
    /\ status' = PENDING
    /\ reply' = NoResponse
    /\ lastOp' = Op("create_brief", FALSE, "none")
    /\ UNCHANGED <<rows, events, changes, notPhaseVars>>

\* ResearchService.update_brief_status(brief_id, FAILED), driven from outside
\* the controller on an unrecoverable pipeline error
update_brief_status_failed ==
    /\ status \in ResearchStatus
    /\ status' = FAILED
    /\ reply' = NoResponse
    /\ lastOp' = Op("update_brief_status", FALSE, "none")
    /\ UNCHANGED <<rows, events, changes, notPhaseVars>>

\* server.py advance_research_phase
advance_research_phase(force_advance, fault) ==
    LET progress == get_research_progress(rows.total, rows.completed, rows.verified)
        current_status == status
        d == ServerPhaseLogic(current_status, progress, force_advance)
    IN  /\ lastOp' = Op("advance_research_phase", force_advance, fault)
        /\ UNCHANGED <<rows, notPhaseVars>>
        /\ IF fault = "get_brief"
           THEN /\ reply' = ServerError("get_brief failed")
                /\ UNCHANGED <<status, events, changes>>
           ELSE IF status = NoBrief
           THEN /\ reply' = ServerError("Research brief not found")
                /\ UNCHANGED <<status, events, changes>>
           ELSE IF d.ready_to_advance /\ d.next_phase # None
           THEN IF fault = "update_brief_status"
                THEN /\ reply' = ServerError("update_brief_status failed")
                     /\ UNCHANGED <<status, events, changes>>
                ELSE /\ status' = d.next_phase
                     /\ changes' = Append(changes, Change(current_status, d.next_phase))
                     /\ IF fault = "log_event"
                        THEN /\ reply' = ServerError("log_event failed")
                             /\ UNCHANGED events
                        ELSE /\ events' = Append(events,
                                    PhaseAdvancedEvent(SERVER_AGENT_NAME, current_status,
                                                       d.next_phase, progress))
                             /\ reply' = Resp("changed", None, TRUE, current_status,
                                                 d.next_phase, None, TRUE,
                                                 d.requirements_met, None)
           ELSE /\ reply' = Resp("unchanged", None, FALSE, None, None,
                                    current_status, d.ready_to_advance,
                                    d.requirements_met, None)
                /\ UNCHANGED <<status, events, changes>>

\* StatusMonitorTool.advance_phase under PodcastOrchestratorAgent;
\* BaseAgent.log_event swallows a failure of EventService.log_event
advance_phase(force_advance, fault) ==
    LET progress == get_research_progress(rows.total, rows.completed, rows.verified)
        current_status == status
        d == ToolPhaseLogic(current_status, progress, force_advance)
    IN  /\ lastOp' = Op("advance_phase", force_advance, fault)
        /\ UNCHANGED <<rows, notPhaseVars>>
        /\ IF fault = "get_brief"
           THEN /\ reply' = create_error_response("get_brief failed")
                /\ UNCHANGED <<status, events, changes>>
           ELSE IF status = NoBrief
           THEN /\ reply' = create_error_response("Research brief not found")
                /\ UNCHANGED <<status, events, changes>>
           ELSE IF d.raised # None
           THEN /\ reply' = create_error_response(d.raised)
                /\ UNCHANGED <<status, events, changes>>
           ELSE IF d.ready_to_advance /\ d.next_phase # None
           THEN IF fault = "update_brief_status"
                THEN /\ reply' = create_error_response("update_brief_status failed")
                     /\ UNCHANGED <<status, events, changes>>
                ELSE /\ status' = d.next_phase
                     /\ changes' = Append(changes, Change(current_status, d.next_phase))
                     /\ events' = IF fault = "log_event" THEN events
                                  ELSE Append(events,
                                         PhaseAdvancedEvent(AGENT_NAME, current_status,
                                                            d.next_phase, progress))
                     /\ reply' = Resp("changed", AGENT_NAME, TRUE, current_status,
                                         d.next_phase, None, TRUE,
                                         d.requirements_met, None)
           ELSE /\ reply' = Resp("unchanged", AGENT_NAME, FALSE, None, None,
                                    current_status, d.ready_to_advance,
                                    d.requirements_met, None)
                /\ UNCHANGED <<status, events, changes>>

AdvanceServer ==
    \E force_advance \in BOOLEAN, fault \in Faults :
        advance_research_phase(force_advance, fault)

AdvanceTool ==
    \E force_advance \in BOOLEAN, fault \in Faults :
        advance_phase(force_advance, fault)

PhaseNext ==
    \/ create_brief
    \/ update_brief_status_failed
    \/ AdvanceServer
    \/ AdvanceTool

(***************************************************************************)
(* The persistence operations as their signatures admit them, and the      *)
(* research-cycle tool.                                                    *)
(***************************************************************************)
\* how many status changes by advance a behaviour may hold when the status is
\* set directly, and how many cycle starts it records
MaxChanges == 1
MaxCycles == 1

\* update_brief_status(brief_id, status: str): the column is a String
StatusArgs == ResearchStatus \cup {"archived"}

CycleTypes == {"quick", "comprehensive", "targeted"}
CycleTypeArgs == {"quick", "weekly"}

\* the research_cycle_started row handed to EventService.log_event
CycleStartedEvent(agent_name, cycle_type) ==
    [event_type |-> "research_cycle_started", agent_name |-> agent_name,
     old_status |-> None, new_status |-> None,
     progress_metrics |-> [cycle_type |-> cycle_type]]

CycleEvents == SelectSeq(events, LAMBDA e : e.event_type = "research_cycle_started")

\* the orchestration plan returned by orchestrate_research_cycle
PlanResponse(agent) == Resp("plan", agent, FALSE, None, None, None, FALSE, <<>>, None)

\* ResearchService.update_brief_status(brief_id, status)
update_brief_status(new_status) ==
    /\ status # NoBrief
    /\ Len(changes) < MaxChanges
    /\ status' = new_status
    /\ reply' = NoResponse
    /\ lastOp' = Op("update_brief_status", FALSE, "none")
    /\ UNCHANGED <<rows, events, changes, notPhaseVars>>

UpdateBriefStatus == \E new_status \in StatusArgs : update_brief_status(new_status)

\* server.py orchestrate_research_cycle: an unknown cycle_type falls back to
\* the comprehensive configuration
orchestrate_research_cycle(cycle_type, fault) ==
    /\ Len(CycleEvents) < MaxCycles
    /\ lastOp' = Op("orchestrate_research_cycle", FALSE, fault)
    /\ UNCHANGED <<status, rows, changes, notPhaseVars>>
    /\ IF fault = "get_brief"
       THEN /\ reply' = ServerError("get_brief failed")
            /\ UNCHANGED events
       ELSE IF status = NoBrief
       THEN /\ reply' = ServerError("Research brief not found")
            /\ UNCHANGED events
       ELSE IF fault = "log_event"
       THEN /\ reply' = ServerError("log_event failed")
            /\ UNCHANGED events
       ELSE /\ events' = Append(events, CycleStartedEvent(SERVER_AGENT_NAME, cycle_type))
            /\ reply' = PlanResponse(None)

\* CycleOrchestratorTool.execute under PodcastOrchestratorAgent: the cycle
\* configuration is read from self.agent.config after the event is logged
execute(cycle_type, fault) ==
    /\ Len(CycleEvents) < MaxCycles
    /\ lastOp' = Op("execute", FALSE, fault)
    /\ UNCHANGED <<status, rows, changes, notPhaseVars>>
    /\ IF cycle_type \notin CycleTypes
       THEN /\ reply' = create_error_response("cycle_type must be one of the choices")
            /\ UNCHANGED events
       ELSE IF fault = "get_brief"
       THEN /\ reply' = create_error_response("get_brief failed")
            /\ UNCHANGED events
       ELSE IF status = NoBrief
       THEN /\ reply' = create_error_response("Research brief not found")
            /\ UNCHANGED events
       ELSE /\ events' = IF fault = "log_event" THEN events
                         ELSE Append(events, CycleStartedEvent(AGENT_NAME, cycle_type))
            /\ reply' = IF "cycle_configs" \in DOMAIN agent_config
                        THEN PlanResponse(AGENT_NAME)
                        ELSE create_error_response("KeyError: 'cycle_configs'")

OrchestrateServer ==
    \E cycle_type \in CycleTypeArgs, fault \in {"none", "get_brief", "log_event"} :
        orchestrate_research_cycle(cycle_type, fault)

OrchestrateTool ==
    \E cycle_type \in CycleTypeArgs, fault \in {"none", "get_brief", "log_event"} :
        execute(cycle_type, fault)

OpsNext ==
    \/ create_brief
    \/ UpdateBriefStatus
    \/ AdvanceServer
    \/ AdvanceTool
    \/ OrchestrateServer
    \/ OrchestrateTool

\* the rows the other agents have written: none, or enough to pass the gate
OpsRowCounts ==
    {r \in RowCounts : \/ r.total = 0 /\ r.verified = 0
                       \/ r.total = MaxQueries /\ r.completed = MaxQueries
                          /\ r.verified = MaxItems}

(***************************************************************************)
(* Part 2.  JSONParser.parse_response.                                     *)
(*                                                                         *)
(* A text is a sequence of tokens:                                         *)
(*   "{" "}" "[" "]"  the four bracket characters                          *)
(*   "k"   an object key with its colon, such as  "a":                     *)
(*   "1"   a JSON number                                                   *)
(*   "p"   a word of prose (no JSON value starts with it)                  *)
(*   "w"   a whitespace character                                          *)
(*   "F"   a code fence, three backquotes                                  *)
(*   "j"   the word json                                                   *)
(* There is no comma token: the JSON texts over these tokens are the       *)
(* numbers, and the objects and arrays of at most one member, nested.      *)
(***************************************************************************)
\* longest text of the exhaustive part of the parser's inputs
MaxTextLen == 2

Tokens == {"{", "}", "[", "]", "k", "1", "p", "w", "F", "j"}

ExpectedTypes == {"dict", "list", "auto"}

MinOf(S) == CHOOSE x \in S : \A y \in S : x <= y
MaxOf(S) == CHOOSE x \in S : \A y \in S : x >= y

\* str.strip(): leading and trailing whitespace removed
Strip(s) ==
    LET solid == {i \in 1..Len(s) : s[i] # "w"}
    IN  IF solid = {} THEN <<>> ELSE SubSeq(s, MinOf(solid), MaxOf(solid))

\* the first position at or after i that holds no whitespace (Len(s)+1: none)
SkipWs(s, i) ==
    LET solid == {n \in i..Len(s) : s[n] # "w"}
    IN  IF solid = {} THEN Len(s) + 1 ELSE MinOf(solid)

\* parsed JSON values
JNum == <<"int", <<>>>>
JDict(members) == <<"dict", members>>
JList(elements) == <<"list", elements>>
TypeName(v) == v[1]

Parsed(v, next) == [ok |-> TRUE, val |-> v, next |-> next]
NotParsed == [ok |-> FALSE, val |-> <<>>, next |-> 0]

\* the JSON value that starts at position i of s, after whitespace
RECURSIVE ParseValue(_, _)
ParseValue(s, i) ==
    LET j == SkipWs(s, i)
    IN  IF j > Len(s) THEN NotParsed
        ELSE IF s[j] = "1" THEN Parsed(JNum, j + 1)
        ELSE IF s[j] = "{"
        THEN LET a == SkipWs(s, j + 1)
             IN  IF a > Len(s) THEN NotParsed
                 ELSE IF s[a] = "}" THEN Parsed(JDict(<<>>), a + 1)
                 ELSE IF s[a] = "k"
                 THEN LET v == ParseValue(s, a + 1)
                          b == SkipWs(s, v.next)
                      IN  IF v.ok /\ b <= Len(s) /\ s[b] = "}"
                          THEN Parsed(JDict(<<v.val>>), b + 1)
                          ELSE NotParsed
                 ELSE NotParsed
        ELSE IF s[j] = "["
        THEN LET a == SkipWs(s, j + 1)
             IN  IF a > Len(s) THEN NotParsed
                 ELSE IF s[a] = "]" THEN Parsed(JList(<<>>), a + 1)
                 ELSE LET v == ParseValue(s, a)
                          b == SkipWs(s, v.next)
                      IN  IF v.ok /\ b <= Len(s) /\ s[b] = "]"
                          THEN Parsed(JList(<<v.val>>), b + 1)
                          ELSE NotParsed
        ELSE NotParsed

\* json.loads: one value, whitespace around it allowed, nothing else;
\* ok = FALSE stands for json.JSONDecodeError
json_loads(s) ==
    LET r == ParseValue(s, 1)
    IN  IF r.ok /\ SkipWs(s, r.next) > Len(s) THEN [ok |-> TRUE, val |-> r.val]
        ELSE [ok |-> FALSE, val |-> <<>>]

Match(text) == [found |-> TRUE, text |-> text]
NoMatch == [found |-> FALSE, text |-> <<>>]

Closer(open) == IF open = "{" THEN "}" ELSE "]"

\* for a fence at position a: where the bracket after (?:json)?\s* opens
\* (0: this fence starts no match)
FenceOpenAt(s, a) ==
    LET b == IF a + 1 <= Len(s) /\ s[a + 1] = "j" THEN a + 2 ELSE a + 1
        o == SkipWs(s, b)
    IN  IF o <= Len(s) /\ s[o] \in {"{", "["} THEN o ELSE 0

\* the ends e of a lazy .*? capture opened at o: a closer followed by \s* and a fence
FenceCloseEnds(s, o) ==
    {e \in (o + 1)..Len(s) :
        /\ s[e] = Closer(s[o])
        /\ LET f == SkipWs(s, e + 1) IN f <= Len(s) /\ s[f] = "F"}

\* re.search(r'```(?:json)?\s*(\{.*?\}|\[.*?\])\s*```', response, re.DOTALL),
\* group 1: the leftmost fence that starts a match, the shortest capture
CodeBlockSearch(s) ==
    LET starts == {a \in 1..Len(s) :
                      /\ s[a] = "F"
                      /\ FenceOpenAt(s, a) # 0
                      /\ FenceCloseEnds(s, FenceOpenAt(s, a)) # {}}
    IN  IF starts = {} THEN NoMatch
        ELSE LET o == FenceOpenAt(s, MinOf(starts))
             IN  Match(SubSeq(s, o, MinOf(FenceCloseEnds(s, o))))

GreedySearchMutantLazy(s, open) ==
    LET opens == {i \in 1..Len(s) : s[i] = open}
        closes == {n \in 1..Len(s) : s[n] = Closer(open) /\ opens # {} /\ n > MinOf(opens)}
    IN  IF closes = {} THEN NoMatch
        ELSE Match(SubSeq(s, MinOf(opens), MinOf(closes)))

\* re.search(r'\{.*\}', response, re.DOTALL) and re.search(r'\[.*\]', ...):
\* from the first opening bracket to the last closing one after it
GreedySearch(s, open) ==
    LET opens == {i \in 1..Len(s) : s[i] = open}
        closes == {n \in 1..Len(s) : s[n] = Closer(open) /\ opens # {} /\ n > MinOf(opens)}
    IN  IF closes = {} THEN NoMatch
        ELSE Match(SubSeq(s, MinOf(opens), MaxOf(closes)))

\* the slice response[:200] of the last error message
RAW_PREFIX_LEN == 200

Take(s, n) == IF Len(s) <= n THEN s ELSE SubSeq(s, 1, n)

\* a JSONParsingError and what its message holds
ParseError(etype, expected, parsed_type, has_raw, raw) ==
    [etype |-> etype, expected |-> expected, parsed_type |-> parsed_type,
     has_raw |-> has_raw, raw |-> raw]
NoError == ParseError(None, None, None, FALSE, <<>>)

Returned(v) == [tag |-> "value", value |-> v, error |-> NoError]
Raised(e) == [tag |-> "error", value |-> <<>>, error |-> e]
NoResult == [tag |-> "none", value |-> <<>>, error |-> NoError]

\* "Empty response provided"
EmptyResponseError == ParseError("empty", None, None, FALSE, <<>>)
\* "Parsed JSON type {type} doesn't match expected {expected_type}"
TypeMismatchError(parsed, expected_type) ==
    ParseError("mismatch", expected_type, TypeName(parsed), FALSE, <<>>)
\* "Failed to parse JSON from response. Expected {expected_type}. Raw response: {response[:200]}..."
AllFailedError(response, expected_type) ==
    ParseError("failed", expected_type, None, TRUE, Take(response, RAW_PREFIX_LEN))

validate_type_mutant_strict_auto(parsed, expected_type) ==
    IF expected_type = "dict" /\ TypeName(parsed) = "dict" THEN Returned(parsed)
    ELSE IF expected_type = "list" /\ TypeName(parsed) = "list" THEN Returned(parsed)
    ELSE Raised(TypeMismatchError(parsed, expected_type))

\* JSONParser._validate_type
validate_type(parsed, expected_type) ==
    IF expected_type = "auto" THEN Returned(parsed)
    ELSE IF expected_type = "dict" /\ TypeName(parsed) = "dict" THEN Returned(parsed)
    ELSE IF expected_type = "list" /\ TypeName(parsed) = "list" THEN Returned(parsed)
    ELSE Raised(TypeMismatchError(parsed, expected_type))

Tried(strategy, outcome) == [strategy |-> strategy, outcome |-> outcome]

\* what one strategy did: its result (NoResult: fall through to the next
\* strategy) and its outcome, "value", "mismatch", "decode_error" or "no_match"
Step(result, outcome) == [result |-> result, outcome |-> outcome]

\* json.loads(candidate) followed by _validate_type; a JSONDecodeError is
\* caught by the strategy's except clause, a JSONParsingError is not
LoadAndValidate(candidate, expected_type) ==
    LET r == json_loads(candidate)
    IN  IF ~r.ok THEN Step(NoResult, "decode_error")
        ELSE LET v == validate_type(r.val, expected_type)
             IN  Step(v, IF v.tag = "value" THEN "value" ELSE "mismatch")

\* Strategy 1: Direct JSON parsing
Strategy1(response, expected_type) ==
    LoadAndValidate(Strip(response), expected_type)

\* Strategy 2: Extract from markdown code block
Strategy2(response, expected_type) ==
    LET json_match == CodeBlockSearch(response)
    IN  IF json_match.found THEN LoadAndValidate(json_match.text, expected_type)
        ELSE Step(NoResult, "no_match")

\* Strategy 3: Find JSON object/array in text
Strategy3(response, expected_type) ==
    LET obj_match == GreedySearch(response, "{")
        arr_match == GreedySearch(response, "[")
    IN  IF expected_type \in {"dict", "auto"} /\ obj_match.found
        THEN LoadAndValidate(obj_match.text, expected_type)
        ELSE IF expected_type \in {"list", "auto"} /\ arr_match.found
        THEN LoadAndValidate(arr_match.text, expected_type)
        ELSE Step(NoResult, "no_match")

PcAfter(step, next_pc) ==
    IF step.result.tag = "value" THEN "returned"
    ELSE IF step.result.tag = "error" THEN "raised"
    ELSE next_pc

\* parse_response, entry: the empty-response guard
ParseEntry ==
    /\ p_pc = "call"
    /\ IF p_text = <<>> \/ Strip(p_text) = <<>>
       THEN /\ p_pc' = "raised"
            /\ p_result' = Raised(EmptyResponseError)
       ELSE /\ p_pc' = "strategy1"
            /\ UNCHANGED p_result
    /\ UNCHANGED <<p_text, p_kind, p_tried, notParseVars>>

ParseStrategy1 ==
    /\ p_pc = "strategy1"
    /\ LET step == Strategy1(p_text, p_kind)
       IN  /\ p_pc' = PcAfter(step, "strategy2")
           /\ p_result' = step.result
           /\ p_tried' = Append(p_tried, Tried(1, step.outcome))
    /\ UNCHANGED <<p_text, p_kind, notParseVars>>

ParseStrategy2 ==
    /\ p_pc = "strategy2"
    /\ LET step == Strategy2(p_text, p_kind)
       IN  /\ p_pc' = PcAfter(step, "strategy3")
           /\ p_result' = step.result
           /\ p_tried' = Append(p_tried, Tried(2, step.outcome))
    /\ UNCHANGED <<p_text, p_kind, notParseVars>>

\* strategy 3 and, when it falls through, "All strategies failed"
ParseStrategy3 ==
    /\ p_pc = "strategy3"
    /\ LET step == Strategy3(p_text, p_kind)
       IN  /\ p_pc' = PcAfter(step, "raised")
           /\ p_result' = IF step.result.tag = "none"
                          THEN Raised(AllFailedError(p_text, p_kind))
                          ELSE step.result
           /\ p_tried' = Append(p_tried, Tried(3, step.outcome))
    /\ UNCHANGED <<p_text, p_kind, notParseVars>>

ParseNext ==
    \/ ParseEntry
    \/ ParseStrategy1
    \/ ParseStrategy2
    \/ ParseStrategy3

\* the parser's inputs: every text of at most MaxTextLen tokens, and the
\* texts Pad . Core . Pad
AllTexts == UNION {[1..n -> Tokens] : n \in 0..MaxTextLen}

Pads ==
    {<<>>, <<"p">>, <<"w">>, <<"p", "w">>, <<"w", "p">>,
     <<"{">>, <<"}">>, <<"[">>, <<"]">>, <<"F">>, <<"1">>}

Cores ==
    {<<"{", "k", "1", "}">>,
     <<"{", "k", "{", "}", "}">>,
     <<"[", "{", "}", "]">>,
     <<"F", "j", "w", "{", "k", "1", "}", "w", "F">>,
     <<"F", "{", "k", "{", "}", "}", "F">>,
     <<"p", "w", "p">>}

ParseInputs == AllTexts \cup {a \o c \o b : a \in Pads, c \in Cores, b \in Pads}

(***************************************************************************)
(* Part 3.  MCPClient.process_query.                                       *)
(*                                                                         *)
(* The generation model and the tools are the environment.  A run fixes    *)
(* the shape of what the model emits (model); whether the model requests   *)
(* tools once more is open at every planning call, and so is whether a     *)
(* tool invocation raises.                                                 *)
(***************************************************************************)
\* most function_call events in one planning response
MaxBatch == 2
\* the latest tool invocation of a run, by its ordinal, that may report an error
MaxErrorAt == 2

\* max_loops = 25  # generous cap to allow multi-step plans
max_loops == 25

TOOL_MODEL == "gpt-4.1-mini"
FINAL_MODEL == "gpt-4.1"

\* the free text of a planning response: none, whitespace only, a word
ModelTexts == {<<>>, <<"w">>, <<"w", "p", "w">>}
\* the call_ids the model emits: all distinct, one per response, or one per position
IdModes == {"fresh", "same_in_batch", "same_across"}

Models ==
    [batch_len : 1..MaxBatch, text : ModelTexts, id_mode : IdModes,
     args_valid : BOOLEAN, error_at : 0..MaxErrorAt]

IdleModel ==
    [batch_len |-> 1, text |-> <<>>, id_mode |-> "fresh",
     args_valid |-> TRUE, error_at |-> 0]

\* the i-th function_call event of the n-th planning response
FunctionCallEvent(m, n, i) ==
    [name |-> "tool",
     arguments |-> IF m.args_valid THEN <<"{", "k", "1", "}">> ELSE <<"{", "p">>,
     call_id |-> IF m.id_mode = "fresh" THEN <<n, i>>
                 ELSE IF m.id_mode = "same_in_batch" THEN <<n, 1>>
                 ELSE <<1, i>>]

BatchMutantReversed(m, n) ==
    [i \in 1..m.batch_len |-> FunctionCallEvent(m, n, m.batch_len - i + 1)]

\* tool_calls of one response: tool_calls.append(event), in the order of
\* llm_response.output
Batch(m, n) == [i \in 1..m.batch_len |-> FunctionCallEvent(m, n, i)]

\* conversation entries
Entry(type, role, content, name, arguments, call_id, output) ==
    [type |-> type, role |-> role, content |-> content, name |-> name,
     arguments |-> arguments, call_id |-> call_id, output |-> output]

\* {"role": "user", "content": query}
UserMessage(query) == Entry("message", "user", query, None, <<>>, <<>>, None)
\* {"role": "assistant", "content": assistant_message_buffer.strip()}
AssistantMessage(content) == Entry("message", "assistant", content, None, <<>>, <<>>, None)
\* {"type": "function_call", name, arguments, call_id}
FunctionCall(call_event) ==
    Entry("function_call", None, <<>>, call_event.name, call_event.arguments,
          call_event.call_id, None)
\* {"type": "function_call_output", call_id, output}
FunctionCallOutput(call_event, tool_output_text) ==
    Entry("function_call_output", None, <<>>, None, <<>>, call_event.call_id,
          tool_output_text)

Query == <<"p">>

ParseArgumentsMutantNoDefault(arguments) == json_loads(arguments).val

\* try: args = json.loads(call_event.arguments) except json.JSONDecodeError: args = {}
ParseArguments(arguments) ==
    LET r == json_loads(arguments) IN IF r.ok THEN r.val ELSE JDict(<<>>)

ToolOutputTextMutantDropsError(m, ordinal) == "tool output"

\* "".join(c.text for c in tool_result.content if hasattr(c, "text")): a tool
\* that reports an error returns the error text as its content
ToolOutputText(m, ordinal) ==
    IF m.error_at = ordinal THEN "Error executing tool" ELSE "tool output"

LoopGuardMutantLE(counter) == counter <= max_loops

\* while loop_counter < max_loops
LoopGuard(counter) == counter < max_loops

CounterStepMutantStuck(counter) == counter

\* loop_counter += 1
CounterStep(counter) == counter + 1

LlmCall(model_name, tool_choice, input) ==
    [model |-> model_name, tool_choice |-> tool_choice, input_len |-> Len(input)]

\* responses.create(model=TOOL_MODEL, ..., tool_choice="auto")
PlanningRequest(input) == LlmCall(TOOL_MODEL, "auto", input)

FinalRequestMutantAuto(input) == LlmCall(FINAL_MODEL, "auto", input)

\* responses.create(model=FINAL_MODEL, ..., tool_choice="none")
FinalRequest(input) == LlmCall(FINAL_MODEL, "none", input)

WithAssistantTextMutantNoStrip(msgs, assistant_message_buffer) ==
    IF assistant_message_buffer # <<>>
    THEN Append(msgs, AssistantMessage(Strip(assistant_message_buffer)))
    ELSE msgs

\* the conversation after the assistant's textual part (if any)
WithAssistantText(msgs, assistant_message_buffer) ==
    IF Strip(assistant_message_buffer) # <<>>
    THEN Append(msgs, AssistantMessage(Strip(assistant_message_buffer)))
    ELSE msgs

\* a session.call_tool(name, args) call: made in which iteration, how long
\* the conversation was when it was made, and whether it raised
Invocation(call_event, args, iteration, seen, raised) ==
    [name |-> call_event.name, args |-> args, call_id |-> call_event.call_id,
     iteration |-> iteration, seen |-> seen, raised |-> raised]

PcAfterCallMutantBreak(rest) == "planning"

\* the for loop goes on to the next call_event; after the last one the while
\* loop tests its guard again
PcAfterCall(rest) == IF rest = <<>> THEN "planning" ELSE "executing"

PcAfterRaiseMutantSwallowed(rest) == PcAfterCall(rest)

\* an exception of session.call_tool is caught nowhere in process_query: it
\* ends the for loop, the while loop and the call
PcAfterRaise(rest) == "aborted"

\* return final_answer_buffer.strip()
ReturnValue(final_answer_buffer) == [kind |-> "str", answer |-> Strip(final_answer_buffer)]
NoReturn == [kind |-> "none", answer |-> <<>>]

AfterRaiseMutantDangling(msgs, call_event) == Append(msgs, FunctionCall(call_event))

\* the conversation when session.call_tool raises: the function_call entry
\* is appended only after call_tool has returned
AfterRaise(msgs, call_event) == msgs

\* messages = [{"role": "user", "content": query}]; counters reset
ProcessQueryStart ==
    /\ l_pc = "start"
    /\ l_pc' = "planning"
    /\ messages' = <<UserMessage(Query)>>
    /\ loop_counter' = 0
    /\ UNCHANGED <<model, tool_calls, llm_calls, final_input, invocations, rounds,
                   loop_exit, returned, cancelled, notLoopVars>>

\* one pass of the while body up to the tool loop: the planning call, the
\* assistant text, and the break when no tool call was requested
PlanningCall ==
    /\ l_pc = "planning"
    /\ LoopGuard(loop_counter)
    /\ \E wants_tools \in BOOLEAN :
        LET n == CounterStep(loop_counter)
            calls == IF wants_tools THEN Batch(model, n) ELSE <<>>
        IN  /\ loop_counter' = n
            /\ llm_calls' = Append(llm_calls, PlanningRequest(messages))
            /\ messages' = WithAssistantText(messages, model.text)
            /\ tool_calls' = calls
            /\ IF calls = <<>>
               THEN /\ l_pc' = "final"
                    /\ loop_exit' = "break"
                    /\ UNCHANGED rounds
               ELSE /\ l_pc' = "executing"
                    /\ rounds' = rounds + 1
                    /\ UNCHANGED loop_exit
    /\ UNCHANGED <<model, final_input, invocations, returned, cancelled, notLoopVars>>

\* one pass of "for call_event in tool_calls" in which call_tool returns
ExecuteToolCall ==
    /\ l_pc = "executing"
    /\ tool_calls # <<>>
    /\ LET call_event == Head(tool_calls)
           args == ParseArguments(call_event.arguments)
           ordinal == Len(invocations) + 1
           tool_output_text == ToolOutputText(model, ordinal)
       IN  /\ invocations' = Append(invocations,
                Invocation(call_event, args, loop_counter, Len(messages), FALSE))
           /\ messages' = messages \o <<FunctionCall(call_event),
                                        FunctionCallOutput(call_event, tool_output_text)>>
           /\ tool_calls' = Tail(tool_calls)
           /\ l_pc' = PcAfterCall(Tail(tool_calls))
    /\ UNCHANGED <<model, loop_counter, llm_calls, final_input, rounds, loop_exit,
                   returned, cancelled, notLoopVars>>

\* one pass of "for call_event in tool_calls" in which call_tool raises: the
\* exception leaves process_query
ExecuteToolCallRaises ==
    /\ l_pc = "executing"
    /\ tool_calls # <<>>
    /\ LET call_event == Head(tool_calls)
           args == ParseArguments(call_event.arguments)
       IN  /\ invocations' = Append(invocations,
                Invocation(call_event, args, loop_counter, Len(messages), TRUE))
           /\ messages' = AfterRaise(messages, call_event)
    /\ l_pc' = PcAfterRaise(Tail(tool_calls))
    /\ UNCHANGED <<model, loop_counter, tool_calls, llm_calls, final_input, rounds,
                   loop_exit, returned, cancelled, notLoopVars>>

\* "After tool loop": the while loop has ended by break or by its guard
FinalCall ==
    /\ \/ l_pc = "final"
       \/ l_pc = "planning" /\ ~LoopGuard(loop_counter)
    /\ llm_calls' = Append(llm_calls, FinalRequest(messages))
    /\ final_input' = messages
    /\ loop_exit' = IF l_pc = "planning" THEN "bound" ELSE loop_exit
    /\ l_pc' = "done"
    /\ \E final_answer_buffer \in ModelTexts :
          returned' = ReturnValue(final_answer_buffer)
    /\ UNCHANGED <<model, messages, loop_counter, tool_calls, invocations, rounds,
                   cancelled, notLoopVars>>

\* the caller's deadline passes, or the caller asks the run to stop, while
\* process_query is running; process_query reads no such signal
CancelRequested ==
    /\ l_pc \in {"planning", "executing", "final"}
    /\ ~cancelled
    /\ cancelled' = TRUE
    /\ UNCHANGED <<l_pc, model, messages, loop_counter, tool_calls, llm_calls,
                   final_input, invocations, rounds, loop_exit, returned, notLoopVars>>

LoopNext ==
    \/ ProcessQueryStart
    \/ PlanningCall
    \/ ExecuteToolCall
    \/ ExecuteToolCallRaises
    \/ FinalCall

LoopCancelNext ==
    \/ ProcessQueryStart
    \/ PlanningCall
    \/ ExecuteToolCall
    \/ ExecuteToolCallRaises
    \/ FinalCall
    \/ CancelRequested

(***************************************************************************)
(* Part 4.  QueryService and the progress metrics.                         *)
(***************************************************************************)
MaxQueryRows == 4

\* update_query_status(query_id, status: str, ...): the statuses its callers
\* write, and the column's default
QueryStatusArgs == {"pending", "completed", "failed"}

QueryOp(name, query_id, new_status) ==
    [name |-> name, query_id |-> query_id, status |-> new_status]

CountCompletedMutantNotCompleted(qs) ==
    Cardinality({i \in 1..Len(qs) : qs[i] # "completed"})

\* filter(ResearchQuery.brief_id == brief_id, ResearchQuery.status == "completed").count()
CountCompleted(qs) == Cardinality({i \in 1..Len(qs) : qs[i] = "completed"})

\* what get_research_progress returns for the brief when called now
ProgressNow(qs) == get_research_progress(Len(qs), CountCompleted(qs), 0)

\* MetricsService.calculate_completion_percentage(completed, total)
calculate_completion_percentage(completed, total) ==
    IF total = 0 THEN Frac(0, 1) ELSE Frac(completed * 100, total)

\* QueryService.add_query: the status column defaults to pending
add_query ==
    /\ Len(queries) < MaxQueryRows
    /\ queries' = Append(queries, PENDING)
    /\ q_lastOp' = QueryOp("add_query", Len(queries) + 1, PENDING)
    /\ UNCHANGED notQueryVars

\* QueryService.update_query_status(query_id, status)
update_query_status(query_id, new_status) ==
    /\ queries' = [queries EXCEPT ![query_id] = new_status]
    /\ q_lastOp' = QueryOp("update_query_status", query_id, new_status)
    /\ UNCHANGED notQueryVars

UpdateQueryStatus ==
    \E query_id \in 1..Len(queries), new_status \in QueryStatusArgs :
        update_query_status(query_id, new_status)

QueryNext ==
    \/ add_query
    \/ UpdateQueryStatus

(***************************************************************************)
(* Part 5.  The tool schema exported to the model.                         *)
(*                                                                         *)
(* A schema is a function from its keys to their values; the value of      *)
(* "properties" and of "required" is the sequence of names (the key order  *)
(* of the dict, the list).                                                 *)
(***************************************************************************)
\* a key of the dict that may be missing: <<>> when missing, <<value>> otherwise
Absent == <<>>
Present(value) == <<value>>
Optional(values) == {Absent} \cup {Present(v) : v \in values}
PropertyLists == {<<>>, <<"a">>, <<"a", "b">>}
RequiredLists == {<<>>, <<"a">>, <<"b", "a">>, <<"c">>}

Put(schema, key, value) ==
    [k \in DOMAIN schema \cup {key} |-> IF k = key THEN value ELSE schema[k]]

\* the dict with the keys that are present
InputSchema(properties, required, additional) ==
    LET s0 == [k \in {"type"} |-> "object"]
        s1 == IF properties = Absent THEN s0 ELSE Put(s0, "properties", properties[1])
        s2 == IF required = Absent THEN s1 ELSE Put(s1, "required", required[1])
    IN  IF additional = Absent THEN s2 ELSE Put(s2, "additionalProperties", additional[1])

InputSchemas ==
    {InputSchema(p, r, a) : p \in Optional(PropertyLists),
                            r \in Optional(RequiredLists),
                            a \in Optional(BOOLEAN)}

NormalizeSchemaMutantKeepsRequired(input_schema) ==
    LET schema == Put(input_schema, "additionalProperties", FALSE)
    IN  IF "properties" \in DOMAIN schema /\ "required" \notin DOMAIN schema
        THEN Put(schema, "required", schema["properties"])
        ELSE schema

\* schema = dict(tool.inputSchema); schema["additionalProperties"] = False;
\* if "properties" in schema: schema["required"] = list(schema["properties"].keys())
NormalizeSchema(input_schema) ==
    LET schema == Put(input_schema, "additionalProperties", FALSE)
    IN  IF "properties" \in DOMAIN schema
        THEN Put(schema, "required", schema["properties"])
        ELSE schema

ToolEntry(by, schema) ==
    [by |-> by, type |-> "function", parameters |-> schema, strict |-> TRUE]
NoToolEntry == [by |-> None, type |-> None, parameters |-> <<>>, strict |-> FALSE]
NoSchema == [k \in {"type"} |-> "object"]

\* MCPClient.process_query, "Build tool schema list once"
ExportInProcessQuery ==
    /\ s_pc = "listed"
    /\ s_tool' = ToolEntry("process_query", NormalizeSchema(s_schema))
    /\ s_pc' = "exported"
    /\ UNCHANGED <<s_schema, notSchemaVars>>

\* MCPHandler.get_available_tools
ExportInHandler ==
    /\ s_pc = "listed"
    /\ s_tool' = ToolEntry("get_available_tools", NormalizeSchema(s_schema))
    /\ s_pc' = "exported"
    /\ UNCHANGED <<s_schema, notSchemaVars>>

SchemaNext ==
    \/ ExportInProcessQuery
    \/ ExportInHandler

(***************************************************************************)
(* Part 6.  ReportGeneratorTool._assess_research_quality.                  *)
(*                                                                         *)
(* The function divides, sums and compares Python floats.  Its average can *)
(* lie exactly on a threshold, where the rounding of the divisions and of  *)
(* the sum decides the label, so the floats are kept bit for bit.          *)
(***************************************************************************)
\* most claims, verified claims or sources a summary counts
MaxTotal == 4

\* an IEEE 754 double is kept exactly, as sign, mantissa and binary exponent:
\* the number (-1)^neg * m * 2^e with m below 2^53.  The mantissa does not
\* fit the integers of the checker; it is a sequence of limbs in base 2^15,
\* least significant limb first, and <<>> is 0.  The arithmetic is written
\* as functions: a function's arguments are computed once, when it is applied.
LimbBits == 15
Limb == 32768
MantissaBits == 53
BigNat == Seq(Nat)

Pow2[k \in Nat] == IF k = 0 THEN 1 ELSE 2 * Pow2[k - 1]

BigOf[n \in Nat] == IF n = 0 THEN <<>> ELSE <<n % Limb>> \o BigOf[n \div Limb]

BigTrim[a \in BigNat] ==
    IF a = <<>> THEN <<>>
    ELSE IF a[Len(a)] = 0 THEN BigTrim[SubSeq(a, 1, Len(a) - 1)]
    ELSE a

LimbAt(a, i) == IF i <= Len(a) THEN a[i] ELSE 0

BigAddFrom[a \in BigNat, b \in BigNat, i \in Nat, carry \in Nat] ==
    IF i > Len(a) /\ i > Len(b)
    THEN IF carry = 0 THEN <<>> ELSE <<carry>>
    ELSE LET s == LimbAt(a, i) + LimbAt(b, i) + carry
         IN  <<s % Limb>> \o BigAddFrom[a, b, i + 1, s \div Limb]

BigAdd(a, b) == BigAddFrom[a, b, 1, 0]

BigSubFrom[a \in BigNat, b \in BigNat, i \in Nat, borrow \in Nat] ==
    IF i > Len(a) THEN <<>>
    ELSE LET d == LimbAt(a, i) - LimbAt(b, i) - borrow
         IN  IF d < 0 THEN <<d + Limb>> \o BigSubFrom[a, b, i + 1, 1]
                      ELSE <<d>> \o BigSubFrom[a, b, i + 1, 0]

\* a - b for a >= b
BigSub(a, b) == BigTrim[BigSubFrom[a, b, 1, 0]]

BigCmpFrom[a \in BigNat, b \in BigNat, i \in Nat] ==
    IF i = 0 THEN 0
    ELSE IF a[i] < b[i] THEN -1
    ELSE IF a[i] > b[i] THEN 1
    ELSE BigCmpFrom[a, b, i - 1]

\* -1, 0 or 1 as a is below, equal to or above b
BigCmp[a \in BigNat, b \in BigNat] ==
    IF Len(a) < Len(b) THEN -1
    ELSE IF Len(a) > Len(b) THEN 1
    ELSE BigCmpFrom[a, b, Len(a)]

BigMulFrom[a \in BigNat, k \in Nat, i \in Nat, carry \in Nat] ==
    IF i > Len(a)
    THEN IF carry = 0 THEN <<>> ELSE <<carry>>
    ELSE LET s == a[i] * k + carry
         IN  <<s % Limb>> \o BigMulFrom[a, k, i + 1, s \div Limb]

\* a * k for 0 < k < 2^15
BigMulSmall(a, k) == BigMulFrom[a, k, 1, 0]

\* the remainder, then the limbs of the quotient, of the limbs 1..i of a
\* after the remainder r of the limbs above them
BigDivFrom[a \in BigNat, d \in Nat, i \in Nat, r \in Nat] ==
    IF i = 0 THEN <<r>>
    ELSE LET cur == r * Limb + a[i]
         IN  Append(BigDivFrom[a, d, i - 1, cur % d], cur \div d)

\* quotient and remainder of a by d, 0 < d <= 2^15
BigDivSmall[a \in BigNat, d \in Nat] ==
    LET x == BigDivFrom[a, d, Len(a), 0]
    IN  [q |-> BigTrim[Tail(x)], r |-> Head(x)]

\* a * 2^k
BigShl[a \in BigNat, k \in Nat] ==
    IF a = <<>> THEN <<>>
    ELSE [i \in 1..(k \div LimbBits) |-> 0] \o BigMulSmall(a, Pow2[k % LimbBits])

SmallBitLen[n \in Nat] == IF n = 0 THEN 0 ELSE 1 + SmallBitLen[n \div 2]

BigBitLen[a \in BigNat] ==
    IF a = <<>> THEN 0 ELSE (Len(a) - 1) * LimbBits + SmallBitLen[a[Len(a)]]

\* a div 2^k, and whether a bit was lost
BigShr[a \in BigNat, k \in Nat] ==
    LET w == k \div LimbBits
        d == BigDivSmall[SubSeq(a, w + 1, Len(a)), Pow2[k % LimbBits]]
    IN  [q |-> d.q, lost |-> d.r # 0 \/ \E i \in 1..w : a[i] # 0]

Double(neg, m, e) == [neg |-> neg, m |-> m, e |-> e]
DoubleZero == Double(FALSE, <<>>, 0)
Doubles == [neg : BOOLEAN, m : BigNat, e : Int]

\* the double nearest to (-1)^neg * (m + f) * 2^e, where 0 < f < 1 if
\* inexact and f = 0 otherwise: round to nearest, ties to even
RoundToDouble[neg \in BOOLEAN, m \in BigNat, e \in Int, inexact \in BOOLEAN] ==
    LET k == BigBitLen[m] - MantissaBits
    IN  IF k <= 0 THEN Double(neg, m, e)
        ELSE LET a == BigShr[m, k - 1]
                 h == BigDivSmall[a.q, 2]
                 sticky == inexact \/ a.lost
                 odd == h.q # <<>> /\ h.q[1] % 2 = 1
                 up == h.r = 1 /\ (sticky \/ odd)
             IN  Double(neg, IF up THEN BigAdd(h.q, <<1>>) ELSE h.q, e + k)

\* the bits after the binary point with which a quotient is taken before it
\* is rounded: it then has more than 53 significant bits
GuardBits == 75

\* int / int, the true division of two small non-negative integers
DoubleOfQuotient[n \in Nat, d \in Nat] ==
    IF n = 0 THEN DoubleZero
    ELSE LET x == BigDivSmall[BigShl[BigOf[n], GuardBits], d]
         IN  RoundToDouble[FALSE, x.q, 0 - GuardBits, x.r # 0]

DoubleNeg(x) == Double(~x.neg, x.m, x.e)

\* x + y
DoubleAdd[x \in Doubles, y \in Doubles] ==
    IF x.m = <<>> THEN y
    ELSE IF y.m = <<>> THEN x
    ELSE LET e == IF x.e < y.e THEN x.e ELSE y.e
             a == BigShl[x.m, x.e - e]
             b == BigShl[y.m, y.e - e]
             c == BigCmp[a, b]
         IN  IF x.neg = y.neg THEN RoundToDouble[x.neg, BigAdd(a, b), e, FALSE]
             ELSE IF c = 0 THEN DoubleZero
             ELSE IF c > 0 THEN RoundToDouble[x.neg, BigSub(a, b), e, FALSE]
             ELSE RoundToDouble[y.neg, BigSub(b, a), e, FALSE]

\* x - y
DoubleSub[x \in Doubles, y \in Doubles] == DoubleAdd[x, DoubleNeg(y)]

\* x / k for a double x and a small positive integer k
DoubleDivSmall[x \in Doubles, k \in Nat] ==
    IF x.m = <<>> THEN DoubleZero
    ELSE LET d == BigDivSmall[BigShl[x.m, GuardBits], k]
         IN  RoundToDouble[x.neg, d.q, x.e - GuardBits, d.r # 0]

\* the sign of a double: -1, 0 or 1
DoubleSign[x \in Doubles] == IF x.m = <<>> THEN 0 ELSE IF x.neg THEN -1 ELSE 1

\* x >= y
DoubleGE(x, y) == DoubleSign[DoubleSub[x, y]] >= 0

\* fabs(x) >= fabs(y)
DoubleAbsGE(x, y) == DoubleGE(Double(FALSE, x.m, x.e), Double(FALSE, y.m, y.e))

\* sum(factors) as CPython up to 3.11 computes it: one double addition per
\* item, left to right (the start value 0 is an int; 0 + f is f)
SumPlain[factors \in Seq(Doubles)] ==
    DoubleAdd[DoubleAdd[factors[1], factors[2]], factors[3]]

\* the running sum and the compensation of a compensated summation
Compensated == [f_result : Doubles, c : Doubles]

\* one step of the compensated summation of CPython 3.12 and later
\* (Neumaier), for the item x: t = f_result + x, and c takes what t has lost
CompensatedStep[acc \in Compensated, x \in Doubles] ==
    LET t == DoubleAdd[acc.f_result, x]
    IN  [f_result |-> t,
         c |-> IF DoubleAbsGE(acc.f_result, x)
               THEN DoubleAdd[acc.c, DoubleAdd[DoubleSub[acc.f_result, t], x]]
               ELSE DoubleAdd[acc.c, DoubleAdd[DoubleSub[x, t], acc.f_result]]]

\* if (c && Py_IS_FINITE(c)) f_result += c
CompensatedResult[acc \in Compensated] ==
    IF acc.c.m # <<>> THEN DoubleAdd[acc.f_result, acc.c] ELSE acc.f_result

\* sum(factors) as CPython 3.12 and later computes it
SumCompensated[factors \in Seq(Doubles)] ==
    CompensatedResult[
        CompensatedStep[
            CompensatedStep[[f_result |-> factors[1], c |-> DoubleZero], factors[2]],
            factors[3]]]

\* the float literals 0.7, 0.5 and 0.3: the doubles nearest to them
EXCELLENT_AT == DoubleOfQuotient[7, 10]
GOOD_AT == DoubleOfQuotient[5, 10]
FAIR_AT == DoubleOfQuotient[3, 10]

Max(a, b) == IF a > b THEN a ELSE b

\* summary.get(key, default)
DictGet(summary, key, default) ==
    IF key \in DOMAIN summary THEN summary[key] ELSE default

\* result.get("summary", {}) of a tool result without a summary
EmptySummary == [k \in {} |-> 0]

\* the summaries of the three tools: a count and the total it is part of
Summaries(count_key, total_key) ==
    {EmptySummary}
    \cup {[k \in {count_key, total_key} |-> IF k = count_key THEN count ELSE total] :
            <<count, total>> \in {ct \in (0..MaxTotal) \X (0..MaxTotal) : ct[1] <= ct[2]}}

\* how sum() adds floats: CPython up to 3.11, CPython 3.12 and later
Summations == {"plain", "compensated"}

QualityArgs ==
    [claims_summary : Summaries("high_confidence_claims", "total_claims"),
     verification_summary : Summaries("verified_count", "total_verified"),
     credibility_summary : Summaries("high_credibility", "total_sources"),
     summation : Summations]

NoQualityArgs ==
    [claims_summary |-> EmptySummary, verification_summary |-> EmptySummary,
     credibility_summary |-> EmptySummary, summation |-> "plain"]

\* the three factors of _assess_research_quality, as count and floored total
Factors(claims_summary, verification_summary, credibility_summary) ==
    <<[count |-> DictGet(claims_summary, "high_confidence_claims", 0),
       total |-> Max(DictGet(claims_summary, "total_claims", 1), 1)],
      [count |-> DictGet(verification_summary, "verified_count", 0),
       total |-> Max(DictGet(verification_summary, "total_verified", 1), 1)],
      [count |-> DictGet(credibility_summary, "high_credibility", 0),
       total |-> Max(DictGet(credibility_summary, "total_sources", 1), 1)]>>

\* if avg_quality >= 0.7: ... elif ... >= 0.5: ... elif ... >= 0.3: ... else
QualityOf[avg_quality \in Doubles] ==
    IF DoubleGE(avg_quality, EXCELLENT_AT) THEN "excellent"
    ELSE IF DoubleGE(avg_quality, GOOD_AT) THEN "good"
    ELSE IF DoubleGE(avg_quality, FAIR_AT) THEN "fair"
    ELSE "poor"

FactorCounts == [count : Nat, total : Nat]

\* the floats count / total of the three factors
FactorsAsDoubles[f \in Seq(FactorCounts)] ==
    <<DoubleOfQuotient[f[1].count, f[1].total],
      DoubleOfQuotient[f[2].count, f[2].total],
      DoubleOfQuotient[f[3].count, f[3].total]>>

\* sum(factors) / len(factors)
Average[factors \in Seq(Doubles), summation \in Summations] ==
    DoubleDivSmall[IF summation = "compensated" THEN SumCompensated[factors]
                                                ELSE SumPlain[factors],
                   Len(factors)]

\* ReportGeneratorTool._assess_research_quality
assess_research_quality(claims_summary, verification_summary, credibility_summary, summation) ==
    QualityOf[Average[FactorsAsDoubles[Factors(claims_summary, verification_summary,
                                               credibility_summary)],
                      summation]]

AssessResearchQuality ==
    /\ r_pc = "call"
    /\ r_quality' = assess_research_quality(r_args.claims_summary,
                        r_args.verification_summary, r_args.credibility_summary,
                        r_args.summation)
    /\ r_pc' = "returned"
    /\ UNCHANGED <<r_args, notQualityVars>>

QualityNext ==
    \/ AssessResearchQuality

(***************************************************************************)
(* Part 7.  Advance invocations that run at the same time.                 *)
(*                                                                         *)
(* The server and the agent tools are separate processes on one database.  *)
(* An invocation reads the brief in one transaction (get_brief), decides   *)
(* on what it has read, writes the status in a second transaction          *)
(* (update_brief_status) and logs the event in a third; the transactions   *)
(* of different invocations interleave.                                    *)
(***************************************************************************)
\* most advance invocations of a behaviour
MaxCalls == 3

Implementations == {"server", "tool"}

Call(pc, implementation, force_advance, current_status, next_phase) ==
    [pc |-> pc, implementation |-> implementation, force_advance |-> force_advance,
     current_status |-> current_status, next_phase |-> next_phase]

\* an invocation that has not been made yet
NotCalled == Call("idle", "server", FALSE, None, None)

\* the decision of an invocation on the status it has read
CallDecision(call) ==
    LET progress == get_research_progress(rows.total, rows.completed, rows.verified)
    IN  IF call.implementation = "server"
        THEN ServerPhaseLogic(call.current_status, progress, call.force_advance)
        ELSE ToolPhaseLogic(call.current_status, progress, call.force_advance)

CallAdvances(call) ==
    LET d == CallDecision(call)
    IN  d.raised = None /\ d.ready_to_advance /\ d.next_phase # None

\* brief = research_service.get_brief(brief_id); current_status = brief['status']
GetBrief(i) ==
    /\ a_calls[i].pc = "idle"
    /\ \E implementation \in Implementations, force_advance \in BOOLEAN :
          a_calls' = [a_calls EXCEPT
                        ![i] = Call("read", implementation, force_advance, status, None)]
    /\ UNCHANGED <<phaseVars, notCallVars>>

\* research_service.update_brief_status(brief_id, next_phase)
UpdateBriefStatusOfCall(i) ==
    /\ a_calls[i].pc = "read"
    /\ CallAdvances(a_calls[i])
    /\ LET next_phase == CallDecision(a_calls[i]).next_phase
       IN  /\ status' = next_phase
           /\ changes' = Append(changes, Change(a_calls[i].current_status, next_phase))
           /\ a_calls' = [a_calls EXCEPT ![i].pc = "written", ![i].next_phase = next_phase]
    /\ UNCHANGED <<rows, events, reply, lastOp, notCallVars>>

\* the else branch, and the KeyError of the tool: nothing is written
ReturnUnchanged(i) ==
    /\ a_calls[i].pc = "read"
    /\ ~CallAdvances(a_calls[i])
    /\ a_calls' = [a_calls EXCEPT ![i].pc = "returned"]
    /\ UNCHANGED <<phaseVars, notCallVars>>

\* event_service.log_event(... "phase_advanced" ...), then return
LogPhaseAdvanced(i) ==
    /\ a_calls[i].pc = "written"
    /\ events' = Append(events,
          PhaseAdvancedEvent(
             IF a_calls[i].implementation = "server" THEN SERVER_AGENT_NAME ELSE AGENT_NAME,
             a_calls[i].current_status, a_calls[i].next_phase,
             get_research_progress(rows.total, rows.completed, rows.verified)))
    /\ a_calls' = [a_calls EXCEPT ![i].pc = "returned"]
    /\ UNCHANGED <<status, rows, changes, reply, lastOp, notCallVars>>

CallReads == \E i \in 1..MaxCalls : GetBrief(i)
CallWrites == \E i \in 1..MaxCalls : UpdateBriefStatusOfCall(i)
CallReturns == \E i \in 1..MaxCalls : ReturnUnchanged(i)
CallLogs == \E i \in 1..MaxCalls : LogPhaseAdvanced(i)

ConcurrentNext ==
    \/ CallReads
    \/ CallWrites
    \/ CallReturns
    \/ CallLogs

(***************************************************************************)
(* Specifications.                                                         *)
(***************************************************************************)
PhaseIdle ==
    /\ status = NoBrief
    /\ rows = [total |-> 0, completed |-> 0, verified |-> 0]
    /\ events = <<>>
    /\ changes = <<>>
    /\ reply = NoResponse
    /\ lastOp = Op("init", FALSE, "none")

ParseIdle ==
    /\ p_pc = "idle"
    /\ p_text = <<>>
    /\ p_kind = "auto"
    /\ p_result = NoResult
    /\ p_tried = <<>>

LoopIdle ==
    /\ l_pc = "idle"
    /\ model = IdleModel
    /\ messages = <<>>
    /\ loop_counter = 0
    /\ tool_calls = <<>>
    /\ llm_calls = <<>>
    /\ final_input = <<>>
    /\ invocations = <<>>
    /\ rounds = 0
    /\ loop_exit = "none"
    /\ returned = NoReturn
    /\ cancelled = FALSE

QueryIdle ==
    /\ queries = <<>>
    /\ q_lastOp = QueryOp("init", 0, None)

SchemaIdle ==
    /\ s_pc = "idle"
    /\ s_schema = NoSchema
    /\ s_tool = NoToolEntry

QualityIdle ==
    /\ r_pc = "idle"
    /\ r_args = NoQualityArgs
    /\ r_quality = None

CallsIdle == a_calls = <<>>

\* no brief row yet; the other agents' rows as the behaviour fixes them
Init ==
    /\ status = NoBrief
    /\ rows \in RowCounts
    /\ events = <<>>
    /\ changes = <<>>
    /\ reply = NoResponse
    /\ lastOp = Op("init", FALSE, "none")
    /\ ParseIdle
    /\ LoopIdle
    /\ QueryIdle
    /\ SchemaIdle
    /\ QualityIdle
    /\ CallsIdle

InitParse ==
    /\ p_pc = "call"
    /\ p_text \in ParseInputs
    /\ p_kind \in ExpectedTypes
    /\ p_result = NoResult
    /\ p_tried = <<>>
    /\ PhaseIdle
    /\ LoopIdle
    /\ QueryIdle
    /\ SchemaIdle
    /\ QualityIdle
    /\ CallsIdle

InitLoop ==
    /\ l_pc = "start"
    /\ model \in Models
    /\ messages = <<>>
    /\ loop_counter = 0
    /\ tool_calls = <<>>
    /\ llm_calls = <<>>
    /\ final_input = <<>>
    /\ invocations = <<>>
    /\ rounds = 0
    /\ loop_exit = "none"
    /\ returned = NoReturn
    /\ cancelled = FALSE
    /\ PhaseIdle
    /\ ParseIdle
    /\ QueryIdle
    /\ SchemaIdle
    /\ QualityIdle
    /\ CallsIdle

InitOps ==
    /\ status = NoBrief
    /\ rows \in OpsRowCounts
    /\ events = <<>>
    /\ changes = <<>>
    /\ reply = NoResponse
    /\ lastOp = Op("init", FALSE, "none")
    /\ ParseIdle
    /\ LoopIdle
    /\ QueryIdle
    /\ SchemaIdle
    /\ QualityIdle
    /\ CallsIdle

\* a brief without queries
InitQueries ==
    /\ queries = <<>>
    /\ q_lastOp = QueryOp("init", 0, None)
    /\ PhaseIdle
    /\ ParseIdle
    /\ LoopIdle
    /\ SchemaIdle
    /\ QualityIdle
    /\ CallsIdle

\* a tool descriptor as session.list_tools returns it
InitSchema ==
    /\ s_pc = "listed"
    /\ s_schema \in InputSchemas
    /\ s_tool = NoToolEntry
    /\ PhaseIdle
    /\ ParseIdle
    /\ LoopIdle
    /\ QueryIdle
    /\ QualityIdle
    /\ CallsIdle

\* a call of _assess_research_quality with its arguments
InitQuality ==
    /\ r_pc = "call"
    /\ r_args \in QualityArgs
    /\ r_quality = None
    /\ PhaseIdle
    /\ ParseIdle
    /\ LoopIdle
    /\ QueryIdle
    /\ SchemaIdle
    /\ CallsIdle

\* a brief that has just been created, and invocations yet to be made
InitConcurrent ==
    /\ status = PENDING
    /\ rows \in OpsRowCounts
    /\ events = <<>>
    /\ changes = <<>>
    /\ reply = NoResponse
    /\ lastOp = Op("create_brief", FALSE, "none")
    /\ a_calls = [i \in 1..MaxCalls |-> NotCalled]
    /\ ParseIdle
    /\ LoopIdle
    /\ QueryIdle
    /\ SchemaIdle
    /\ QualityIdle

Spec == Init /\ [][PhaseNext]_vars

SpecQueries == InitQueries /\ [][QueryNext]_vars

SpecSchema == InitSchema /\ [][SchemaNext]_vars

SpecQuality == InitQuality /\ [][QualityNext]_vars

SpecConcurrent == InitConcurrent /\ [][ConcurrentNext]_vars

SpecOps == InitOps /\ [][OpsNext]_vars

SpecParse == InitParse /\ [][ParseNext]_vars

SpecLoop == InitLoop /\ [][LoopNext]_vars

\* process_query branches on whether tool calls were requested and on the
\* counter only: the scripts that differ in that (batch length, tool errors)
PlainModels ==
    {m \in Models : m.text = <<>> /\ m.id_mode = "fresh" /\ m.args_valid}

InitLoopPlain ==
    /\ l_pc = "start"
    /\ model \in PlainModels
    /\ messages = <<>>
    /\ loop_counter = 0
    /\ tool_calls = <<>>
    /\ llm_calls = <<>>
    /\ final_input = <<>>
    /\ invocations = <<>>
    /\ rounds = 0
    /\ loop_exit = "none"
    /\ returned = NoReturn
    /\ cancelled = FALSE
    /\ PhaseIdle
    /\ ParseIdle
    /\ QueryIdle
    /\ SchemaIdle
    /\ QualityIdle
    /\ CallsIdle

\* process_query while the caller's deadline may pass
SpecLoopCancel == InitLoopPlain /\ [][LoopCancelNext]_vars

\* every model call and every tool call returns: the run keeps taking steps
SpecLoopFair == InitLoopPlain /\ [][LoopNext]_vars /\ WF_vars(LoopNext)

(***************************************************************************)
(* Properties of the phase controller (Spec).                              *)
(***************************************************************************)
IsAdvance(op) == op.name \in {"advance_research_phase", "advance_phase"}

Terminal == {COMPLETED, FAILED}

\* C1: an advance invocation, whatever the progress metrics and the force
\* flag, leaves the status of a Completed or Failed brief as it is.
C1_TerminalStatusKept ==
    [][(IsAdvance(lastOp') /\ status \in Terminal) => status' = status]_vars

\* an advance with the force flag has run on a Failed brief
C1_Witness ==
    /\ IsAdvance(lastOp)
    /\ lastOp.force_advance
    /\ status = FAILED
    /\ reply.kind = "unchanged"
    /\ reply.current_phase = FAILED

\* the gate of the specification: completion >= 80 % and at least 5 verified items
GateHolds(r) ==
    /\ r.total > 0
    /\ r.completed * 100 >= 80 * r.total
    /\ r.verified >= 5

\* C2: on an InProgress brief an advance whose transactions all commit sets
\* the status to Completed exactly when the gate holds or force is set; with
\* 9 of 10 queries completed and 6 verified items it answers
\* phase_changed = true, new_phase = Completed.
C2_CompletesIffGate ==
    [][(IsAdvance(lastOp') /\ lastOp'.fault = "none" /\ status = IN_PROGRESS)
          => /\ (status' = COMPLETED) <=> (GateHolds(rows) \/ lastOp'.force_advance)
             /\ (rows.total = 10 /\ rows.completed = 9 /\ rows.verified = 6)
                   => (reply'.phase_changed /\ reply'.new_phase = COMPLETED)]_vars

\* C7: the status changes made by advance and the persisted phase_advanced
\* events correspond one to one, in order, each event carrying the old and
\* the new phase and the metrics read.
C7_TransitionAndEventAtomic ==
    /\ Len(events) = Len(changes)
    /\ \A i \in 1..Len(events) :
          /\ i <= Len(changes)
          /\ events[i].event_type = "phase_advanced"
          /\ events[i].old_status = changes[i].old
          /\ events[i].new_status = changes[i].new
          /\ events[i].progress_metrics =
                get_research_progress(rows.total, rows.completed, rows.verified)

(***************************************************************************)
(* Properties of process_query (SpecLoop, SpecLoopFair).                   *)
(***************************************************************************)
PlanningCalls == Cardinality({i \in 1..Len(llm_calls) : llm_calls[i].model = TOOL_MODEL})
FinalCalls == {i \in 1..Len(llm_calls) : llm_calls[i].model = FINAL_MODEL}
InvocationsIn(n) == {i \in 1..Len(invocations) : invocations[i].iteration = n}

\* C3: a run makes at most max_loops planning calls, every planning call
\* raises the iteration counter, and the run ends, whatever the model asks for.
C3_BoundedTermination ==
    /\ [](PlanningCalls <= max_loops /\ loop_counter = PlanningCalls)
    /\ [][Len(llm_calls') > Len(llm_calls) /\ l_pc = "planning" /\ LoopGuard(loop_counter)
             => loop_counter' > loop_counter]_vars
    /\ <>(l_pc \in {"done", "aborted"})

\* the model asked for tools in every planning response and the run ended
C3_Witness ==
    /\ l_pc = "done"
    /\ loop_exit = "bound"
    /\ rounds = max_loops
    /\ PlanningCalls = max_loops

\* C4 as stated: when the run is done after the model asked for tools in k
\* rounds, there were k+1 planning calls, one complete batch per round, one
\* final call, and at most max_loops planning calls.
C4_ExactlyKPlusOnePlanningCalls ==
    l_pc = "done" =>
        /\ PlanningCalls = rounds + 1
        /\ \A n \in 1..rounds : Cardinality(InvocationsIn(n)) = model.batch_len
        /\ Cardinality(FinalCalls) = 1
        /\ PlanningCalls <= max_loops

\* C4 amended: k+1 planning calls when the model stops after k < max_loops
\* rounds; max_loops planning calls when it still asks for tools in round
\* max_loops; in both cases one complete batch per round and one final call.
C4_PlanningCallsPerRounds ==
    l_pc = "done" =>
        /\ loop_exit = "break" => (PlanningCalls = rounds + 1 /\ rounds < max_loops)
        /\ loop_exit = "bound" => (PlanningCalls = rounds /\ rounds = max_loops)
        /\ loop_exit \in {"break", "bound"}
        /\ \A n \in 1..rounds : Cardinality(InvocationsIn(n)) = model.batch_len
        /\ \A n \in 1..max_loops : n > rounds => InvocationsIn(n) = {}
        /\ Cardinality(FinalCalls) = 1
        /\ PlanningCalls <= max_loops

\* the model asked for batches of two calls in two rounds and then stopped
C4_Witness ==
    /\ l_pc = "done"
    /\ loop_exit = "break"
    /\ rounds = 2
    /\ model.batch_len = 2
    /\ PlanningCalls = 3

\* C5: every function_call_output directly follows a function_call with its
\* call_id and every function_call is directly followed by an output with
\* its call_id: requests and results pair off, no request is left dangling.
C5_ResultFollowsRequest ==
    \A i \in 1..Len(messages) :
        /\ messages[i].type = "function_call_output" =>
              /\ i > 1
              /\ messages[i - 1].type = "function_call"
              /\ messages[i - 1].call_id = messages[i].call_id
        /\ messages[i].type = "function_call" =>
              /\ i < Len(messages)
              /\ messages[i + 1].type = "function_call_output"
              /\ messages[i + 1].call_id = messages[i].call_id

\* a tool invocation raised after an earlier call of the run had been answered
C5_Witness ==
    /\ l_pc = "aborted"
    /\ Len(invocations) >= 2
    /\ \E i \in 1..Len(messages) : messages[i].type = "function_call_output"

\* C6: a finished run has made exactly one final-model call, its last call,
\* with tool_choice none and the whole conversation as input; no final-model
\* call is made before the loop has ended, and no call follows it.
C6_OneFinalCallAfterLoop ==
    /\ l_pc = "done" =>
          /\ Cardinality(FinalCalls) = 1
          /\ llm_calls[Len(llm_calls)].tool_choice = "none"
          /\ llm_calls[Len(llm_calls)].input_len = Len(messages)
          /\ final_input = messages
    /\ l_pc # "done" => FinalCalls = {} /\ final_input = <<>>
    /\ \A i \in FinalCalls : i = Len(llm_calls) /\ loop_exit \in {"break", "bound"}

\* the model stopped asking for tools after one round and the run finished
C6_Witness ==
    /\ l_pc = "done"
    /\ loop_exit = "break"
    /\ rounds = 1
    /\ Len(final_input) >= 3

(***************************************************************************)
(* Properties of parse_response (SpecParse).                               *)
(***************************************************************************)
ParseEnded == p_pc \in {"returned", "raised"}

Before(s, i) == SubSeq(s, 1, i - 1)
After(s, j) == SubSeq(s, j + 1, Len(s))

\* the text of a JSON object, from its opening brace to its closing brace
IsObjectText(t) ==
    /\ Len(t) >= 2
    /\ t[1] = "{"
    /\ t[Len(t)] = "}"
    /\ json_loads(t).ok

NoFence(s) == \A n \in 1..Len(s) : s[n] # "F"
NoOpeningBrace(s) == \A n \in 1..Len(s) : s[n] # "{"
NoClosingBrace(s) == \A n \in 1..Len(s) : s[n] # "}"
OnlyWhitespace(s) == \A n \in 1..Len(s) : s[n] = "w"

\* the text's first fence, optionally tagged json, then whitespace
OpensFence(pre) ==
    \E n \in 1..Len(pre) :
        /\ pre[n] = "F"
        /\ NoFence(Before(pre, n))
        /\ \/ OnlyWhitespace(After(pre, n))
           \/ n < Len(pre) /\ pre[n + 1] = "j" /\ OnlyWhitespace(After(pre, n + 1))

\* whitespace, then a fence
ClosesFence(post) ==
    \E n \in 1..Len(post) : post[n] = "F" /\ OnlyWhitespace(Before(post, n))

\* the JSON objects and arrays that occur in a text, by their positions
Containers(t) ==
    {ij \in (1..Len(t)) \X (1..Len(t)) :
        /\ ij[1] < ij[2]
        /\ t[ij[1]] \in {"{", "["}
        /\ t[ij[2]] \in {"}", "]"}
        /\ json_loads(SubSeq(t, ij[1], ij[2])).ok}

\* C8 as stated, for a text that holds one JSON object and no other JSON
\* object or array, whatever surrounds it: parse_response with expected type
\* dict returns that object.
C8_ObjectRecoveredFromAnyText ==
    (ParseEnded /\ p_kind = "dict") =>
        \A ij \in Containers(p_text) :
            (Containers(p_text) = {ij} /\ p_text[ij[1]] = "{")
               => p_result = Returned(json_loads(SubSeq(p_text, ij[1], ij[2])).val)

\* C8 amended: parse_response with expected type dict or auto returns a JSON
\* object that holds no fence when the text is that object up to whitespace,
\* or when the text is not JSON as a whole and either has no fence, no
\* opening brace before the object and no closing brace after it, or has
\* the object, up to whitespace, between its first fence and a further one.
C8_ObjectRecovered ==
    (ParseEnded /\ p_kind \in {"dict", "auto"}) =>
        \A i \in 1..Len(p_text) : \A j \in i..Len(p_text) :
            LET obj == SubSeq(p_text, i, j)
                pre == Before(p_text, i)
                post == After(p_text, j)
            IN  (/\ IsObjectText(obj)
                 /\ NoFence(obj)
                 /\ \/ OnlyWhitespace(pre) /\ OnlyWhitespace(post)
                    \/ /\ ~json_loads(Strip(p_text)).ok
                       /\ \/ /\ NoFence(p_text)
                             /\ NoOpeningBrace(pre)
                             /\ NoClosingBrace(post)
                          \/ OpensFence(pre) /\ ClosesFence(post))
                => p_result = Returned(json_loads(obj).val)

\* "Intro text\n```json\n{"a": 1}\n```\ntrailing" has been parsed as a dict
C8_Witness ==
    /\ p_pc = "returned"
    /\ p_kind = "dict"
    /\ p_text = <<"p", "w", "F", "j", "w", "{", "k", "1", "}", "w", "F", "w", "p">>
    /\ p_result = Returned(JDict(<<JNum>>))

\* C9: a candidate of the wrong type at strategy 1 or 2 does not end the
\* parse: the next strategy is run.
C9_MismatchTriesNextStrategy ==
    \A i \in 1..Len(p_tried) :
        (ParseEnded /\ p_tried[i].outcome = "mismatch" /\ p_tried[i].strategy < 3)
           => \E n \in 1..Len(p_tried) : p_tried[n].strategy = p_tried[i].strategy + 1

KindMatches(v, kind) == kind = "auto" \/ TypeName(v) = kind

\* what each strategy, run on its own, parses out of the text
Candidates(t, kind) ==
    {json_loads(Strip(t))}
    \cup (IF CodeBlockSearch(t).found THEN {json_loads(CodeBlockSearch(t).text)} ELSE {})
    \cup (IF kind \in {"dict", "auto"} /\ GreedySearch(t, "{").found
          THEN {json_loads(GreedySearch(t, "{").text)} ELSE {})
    \cup (IF kind \in {"list", "auto"} /\ GreedySearch(t, "[").found
          THEN {json_loads(GreedySearch(t, "[").text)} ELSE {})

NoStrategyYields(t, kind) ==
    \A c \in Candidates(t, kind) : ~(c.ok /\ KindMatches(c.val, kind))

\* C10: when no strategy yields a value of the expected type, parse_response
\* raises an error whose message holds the first 200 characters of the text
\* and the expected type.
C10_ErrorCarriesRawAndKind ==
    (ParseEnded /\ NoStrategyYields(p_text, p_kind)) =>
        /\ p_result.tag = "error"
        /\ p_result.error.has_raw
        /\ p_result.error.raw = Take(p_text, RAW_PREFIX_LEN)
        /\ p_result.error.expected = p_kind

(***************************************************************************)
(* Properties of process_query: errors, bound, cancellation.               *)
(***************************************************************************)
\* the invocation in which the tool reports an error, when it has been made
\* and call_tool returned
ErrorReported(e) ==
    /\ e \in 1..Len(invocations)
    /\ model.error_at = e
    /\ ~invocations[e].raised

\* C11: when a tool reports an error for a call, the conversation gets the
\* call's function_call_output with its call_id and the error text; the rest
\* of the batch is still invoked and, unless a later invocation raises, the
\* loop goes on to its next planning call (or to the bound).
C11_ToolErrorIsRecorded ==
    \A e \in 1..Len(invocations) :
        ErrorReported(e) =>
            LET at == invocations[e].seen + 2
                n == invocations[e].iteration
            IN  /\ at <= Len(messages)
                /\ messages[at].type = "function_call_output"
                /\ messages[at].call_id = invocations[e].call_id
                /\ messages[at].output = "Error executing tool"
                /\ l_pc # "aborted" \/ invocations[Len(invocations)].raised
                /\ l_pc \in {"planning", "final", "done"} =>
                      /\ Cardinality(InvocationsIn(n)) = model.batch_len
                      /\ n < max_loops /\ l_pc # "planning" => PlanningCalls > n

\* the first call of a batch of two reported an error and the run finished
C11_Witness ==
    /\ l_pc = "done"
    /\ model.batch_len = 2
    /\ ErrorReported(1)
    /\ Len(invocations) >= 2
    /\ PlanningCalls >= 2

\* C12: an invocation that raises is the last thing the run does: no later
\* call of the batch is invoked, no planning call and no final call follows,
\* and process_query ends with the exception.
C12_RaiseAbortsRun ==
    \A i \in 1..Len(invocations) :
        invocations[i].raised =>
            /\ i = Len(invocations)
            /\ l_pc = "aborted"
            /\ Len(llm_calls) = invocations[i].iteration
            /\ PlanningCalls = invocations[i].iteration
            /\ FinalCalls = {}
            /\ returned = NoReturn

\* the first call of a batch of two raised in the second iteration
C12_Witness ==
    /\ l_pc = "aborted"
    /\ model.batch_len = 2
    /\ Len(tool_calls) = 2
    /\ invocations[Len(invocations)].raised
    /\ invocations[Len(invocations)].iteration = 2

\* C13: a run that ends at the iteration bound returns a result that holds
\* the transcript and a bound_exceeded flag.
C13_BoundExceededIsFlagged ==
    (l_pc = "done" /\ loop_exit = "bound") =>
        /\ "bound_exceeded" \in DOMAIN returned
        /\ returned.bound_exceeded = TRUE
        /\ "transcript" \in DOMAIN returned
        /\ returned.transcript = messages

\* C14: once the cancellation signal is set, no planning call and no tool
\* invocation starts, and no final call is made: the run ends as cancelled.
C14_NoWorkAfterCancel ==
    [][cancelled => (llm_calls' = llm_calls /\ invocations' = invocations
                       /\ l_pc' # "done")]_vars

(***************************************************************************)
(* Properties of the phase controller: invocations that change nothing.    *)
(***************************************************************************)
\* C15: an advance on a Completed or Failed brief, forced or not, leaves the
\* status and the event log as they are and, when its reads succeed, answers
\* phase_changed = false, ready_to_advance = false and the current phase.
C15_TerminalAdvanceIsNoOp ==
    [][(IsAdvance(lastOp') /\ status \in Terminal) =>
          /\ status' = status
          /\ events' = events
          /\ changes' = changes
          /\ lastOp'.fault # "get_brief" =>
                /\ reply'.kind = "unchanged"
                /\ ~reply'.phase_changed
                /\ ~reply'.ready_to_advance
                /\ reply'.current_phase = status]_vars

\* a forced advance has run on a Completed brief that had been advanced twice
C15_Witness ==
    /\ IsAdvance(lastOp)
    /\ lastOp.force_advance
    /\ lastOp.fault = "none"
    /\ status = COMPLETED
    /\ Len(events) = 2
    /\ reply.kind = "unchanged"
    /\ ~reply.ready_to_advance

\* the requirement lines of a response name this threshold and this value
ReportsShortfall(reqs, need, have) ==
    \E i \in 1..Len(reqs) : reqs[i].need = need /\ reqs[i].have = have

\* C16: an unforced advance on an InProgress brief whose metrics miss the
\* gate leaves the status and the event log as they are and answers
\* phase_changed = false with the shortfall against the completion threshold
\* and against the verified-items threshold.
C16_GateNotMetReportsShortfall ==
    [][(/\ IsAdvance(lastOp')
        /\ lastOp'.fault = "none"
        /\ ~lastOp'.force_advance
        /\ status = IN_PROGRESS
        /\ ~GateHolds(rows)) =>
          /\ status' = status
          /\ events' = events
          /\ reply'.kind = "unchanged"
          /\ ~reply'.phase_changed
          /\ ReportsShortfall(reply'.requirements_met, 80,
                              Frac(IF rows.total > 0 THEN rows.completed * 100 ELSE 0,
                                   IF rows.total > 0 THEN rows.total ELSE 1))
          /\ ReportsShortfall(reply'.requirements_met, 5, Frac(rows.verified, 1))]_vars

(***************************************************************************)
(* Properties of the persistence operations (SpecOps).                     *)
(***************************************************************************)
\* C17: a research-cycle start that succeeds on a Pending brief leaves the
\* brief InProgress.
C17_CycleStartFiresTransition ==
    [][(/\ lastOp'.name \in {"orchestrate_research_cycle", "execute"}
        /\ reply'.kind = "plan"
        /\ status = PENDING) => status' = IN_PROGRESS]_vars

\* C20: the status of a brief is always one of pending, in_progress,
\* completed, failed, and a brief just created is pending.
C20_StatusIsResearchStatus ==
    /\ status \in ResearchStatus \cup {NoBrief}
    /\ lastOp.name = "create_brief" => status = PENDING

(***************************************************************************)
(* Properties of the progress metrics (SpecQueries).                       *)
(***************************************************************************)
FracLE(f, g) == f.num * g.den <= g.num * f.den

CompletedStay ==
    \A i \in 1..Len(queries) : queries[i] = "completed" => queries'[i] = "completed"

PercentageNotLower ==
    FracLE(ProgressNow(queries).completion_percentage,
           ProgressNow(queries').completion_percentage)

\* C18 as stated: whatever operation of the query service runs, the
\* completion_percentage that get_research_progress returns afterwards is
\* not lower than the one it returned before, and completed queries stay
\* completed.
C18_PercentageNeverDrops ==
    [][PercentageNotLower /\ CompletedStay]_vars

\* C18 amended: the same, for update_query_status calls that mark a query
\* completed.
C18_PercentageGrowsWithCompletions ==
    [][(q_lastOp'.name = "update_query_status" /\ q_lastOp'.status = "completed")
          => (PercentageNotLower /\ CompletedStay)]_vars

\* the second of three queries has just been marked completed: 2 of 3
C18_Witness ==
    /\ q_lastOp = QueryOp("update_query_status", 2, "completed")
    /\ queries = <<"completed", "completed", "pending">>
    /\ ProgressNow(queries).completion_percentage = Frac(200, 3)

(***************************************************************************)
(* Properties of the exported tool schema (SpecSchema).                    *)
(***************************************************************************)
Range(seq) == {seq[i] : i \in 1..Len(seq)}

DeclaredNames(schema) ==
    IF "properties" \in DOMAIN schema THEN Range(schema["properties"]) ELSE {}

\* C19 as stated: every exported schema has additionalProperties false and a
\* required list that holds exactly the declared property names.
C19_RequiredIsAllDeclared ==
    s_pc = "exported" =>
        /\ s_tool.parameters["additionalProperties"] = FALSE
        /\ "required" \in DOMAIN s_tool.parameters
        /\ Range(s_tool.parameters["required"]) = DeclaredNames(s_schema)
        /\ Len(s_tool.parameters["required"]) = Cardinality(DeclaredNames(s_schema))

\* C19 amended: every exported schema has additionalProperties false; when
\* the tool's schema has a properties key its required list holds exactly
\* the declared names, otherwise required is what the tool supplied, if
\* anything.
C19_RequiredIsAllDeclaredIfAny ==
    s_pc = "exported" =>
        /\ s_tool.parameters["additionalProperties"] = FALSE
        /\ "properties" \in DOMAIN s_schema =>
              /\ "required" \in DOMAIN s_tool.parameters
              /\ Range(s_tool.parameters["required"]) = DeclaredNames(s_schema)
              /\ Len(s_tool.parameters["required"]) = Cardinality(DeclaredNames(s_schema))
        /\ "properties" \notin DOMAIN s_schema =>
              /\ "required" \in DOMAIN s_tool.parameters <=> "required" \in DOMAIN s_schema
              /\ "required" \in DOMAIN s_schema =>
                    s_tool.parameters["required"] = s_schema["required"]

\* a tool that declared a and b, required only a and allowed additional
\* properties has been exported
C19_Witness ==
    /\ s_pc = "exported"
    /\ s_schema = InputSchema(Present(<<"a", "b">>), Present(<<"a">>), Present(TRUE))
    /\ s_tool.parameters["required"] = <<"a", "b">>
    /\ s_tool.parameters["additionalProperties"] = FALSE

(***************************************************************************)
(* Properties of process_query: the order of the transcript.               *)
(***************************************************************************)
IsPlanningStep ==
    /\ l_pc = "planning"
    /\ LoopGuard(loop_counter)
    /\ Len(llm_calls') > Len(llm_calls)

FirstInIteration(k) ==
    k = 1 \/ invocations[k - 1].iteration # invocations[k].iteration

FreeText == Strip(model.text)

\* C21: the planning step of an iteration appends the model's free text,
\* stripped, as one assistant entry when it is not blank and appends nothing
\* when it is blank, and invokes no tool; so the first tool of an iteration
\* is invoked on a transcript that ends with that assistant entry (or, for a
\* blank text, with no assistant entry), and no other step appends an
\* assistant entry.
C21_TextBeforeToolDispatch ==
    /\ [](\A k \in 1..Len(invocations) :
            FirstInIteration(k) =>
                LET seen == messages[invocations[k].seen]
                IN  IF FreeText # <<>>
                    THEN seen = AssistantMessage(FreeText)
                    ELSE seen.role # "assistant")
    /\ [][IsPlanningStep =>
            /\ invocations' = invocations
            /\ messages' = IF FreeText # <<>>
                           THEN Append(messages, AssistantMessage(FreeText))
                           ELSE messages]_vars
    /\ [][~IsPlanningStep =>
            \A i \in (Len(messages) + 1)..Len(messages') :
                messages'[i].role # "assistant"]_vars

\* the first tool of the second iteration was invoked right after the
\* assistant entry of that iteration
C21_Witness ==
    /\ model.text = <<"w", "p", "w">>
    /\ \E k \in 1..Len(invocations) :
          /\ FirstInIteration(k)
          /\ invocations[k].iteration = 2
          /\ messages[invocations[k].seen] = AssistantMessage(<<"p">>)
          /\ messages[invocations[k].seen + 1].type = "function_call"

\* the position of invocation k among the invocations of its iteration
PositionInBatch(k) ==
    Cardinality({i \in 1..k : invocations[i].iteration = invocations[k].iteration})

\* the event the model emitted at the position of invocation k
EmittedAt(k) ==
    FunctionCallEvent(model, invocations[k].iteration, PositionInBatch(k))

\* C22: the invocations of an iteration follow the order in which the model
\* emitted the calls; each invocation that returned is followed in the
\* transcript by its request and its result, and the next tool of the batch
\* is invoked only on a transcript that already ends with that pair.
C22_SequentialInEmissionOrder ==
    \A k \in 1..Len(invocations) :
        LET inv == invocations[k]
        IN  /\ PositionInBatch(k) <= model.batch_len
            /\ inv.call_id = EmittedAt(k).call_id
            /\ inv.name = EmittedAt(k).name
            /\ ~inv.raised =>
                  /\ Len(messages) >= inv.seen + 2
                  /\ messages[inv.seen + 1] = FunctionCall(EmittedAt(k))
                  /\ messages[inv.seen + 2].type = "function_call_output"
                  /\ messages[inv.seen + 2].call_id = inv.call_id
            /\ (k > 1 /\ ~FirstInIteration(k)) =>
                  /\ ~invocations[k - 1].raised
                  /\ inv.seen = invocations[k - 1].seen + 2

\* a batch of two calls with distinct call_ids was dispatched, the second
\* call after the result of the first
C22_Witness ==
    /\ model.id_mode = "fresh"
    /\ model.batch_len >= 2
    /\ Len(invocations) >= 2
    /\ invocations[1].call_id = <<1, 1>>
    /\ invocations[2].call_id = <<1, 2>>
    /\ invocations[2].seen = invocations[1].seen + 2
    /\ ~invocations[2].raised
    /\ messages[invocations[2].seen].call_id = <<1, 1>>
    /\ messages[invocations[2].seen + 1].call_id = <<1, 2>>

\* C23: no two function_call entries of the transcript carry the same
\* call_id, whatever call_ids the model emits.
C23_CallIdsUnique ==
    \A i, j \in 1..Len(messages) :
        (/\ i # j
         /\ messages[i].type = "function_call"
         /\ messages[j].type = "function_call")
            => messages[i].call_id # messages[j].call_id

(***************************************************************************)
(* Properties of parse_response: the Auto kind.                            *)
(***************************************************************************)
\* C24: a successful parse_response with expected type "auto" returns a
\* dict or a list, never a JSON scalar.
C24_AutoReturnsContainer ==
    (p_pc = "returned" /\ p_kind = "auto") =>
        /\ p_result.tag = "value"
        /\ TypeName(p_result.value) \in {"dict", "list"}

(***************************************************************************)
(* Properties of the progress metrics: the value of the percentage.        *)
(***************************************************************************)
\* the fraction f is the number n / d
FracIs(f, n, d) == f.den > 0 /\ f.num * d = n * f.den

\* C25: after any sequence of add_query and update_query_status calls, both
\* get_research_progress and calculate_completion_percentage, applied to the
\* rows as they are now, give 0 for a brief without queries and
\* completed / total * 100 otherwise, a number between 0 and 100.
C25_PercentageOfCurrentRows ==
    LET total == Len(queries)
        completed == Cardinality({i \in 1..Len(queries) : queries[i] = COMPLETED})
        p == ProgressNow(queries).completion_percentage
        c == calculate_completion_percentage(completed, total)
    IN  /\ total = 0 => (FracIs(p, 0, 1) /\ FracIs(c, 0, 1))
        /\ total > 0 => (FracIs(p, completed * 100, total) /\ FracIs(c, completed * 100, total))
        /\ FracGE(p, 0) /\ FracLE(p, Frac(100, 1))
        /\ FracGE(c, 0) /\ FracLE(c, Frac(100, 1))

\* a fourth query was added to a brief whose three queries were completed:
\* the percentage read now is 75
C25_Witness ==
    /\ q_lastOp.name = "add_query"
    /\ queries = <<COMPLETED, COMPLETED, COMPLETED, PENDING>>
    /\ FracIs(ProgressNow(queries).completion_percentage, 75, 1)
    /\ FracIs(calculate_completion_percentage(3, 4), 75, 1)

(***************************************************************************)
(* Properties of the research quality label (SpecQuality).                 *)
(***************************************************************************)
\* the sum of the three ratios count / total, as a numerator over the
\* product of the totals
RatioSum(f) ==
    [num |-> f[1].count * f[2].total * f[3].total
             + f[2].count * f[1].total * f[3].total
             + f[3].count * f[1].total * f[2].total,
     den |-> f[1].total * f[2].total * f[3].total]

\* the average of the three ratios is at least tenths / 10
AverageAtLeast(f, tenths) == 10 * RatioSum(f).num >= 3 * tenths * RatioSum(f).den

QualityOfAverage(f) ==
    IF AverageAtLeast(f, 7) THEN "excellent"
    ELSE IF AverageAtLeast(f, 5) THEN "good"
    ELSE IF AverageAtLeast(f, 3) THEN "fair"
    ELSE "poor"

\* C26: the label returned is the one of the average of the three ratios,
\* each over its total floored to 1, a missing count read as 0: excellent
\* from 0.7, good from 0.5, fair from 0.3, poor below.
C26_QualityOfAverageOfRatios ==
    r_pc = "returned" =>
        r_quality = QualityOfAverage(Factors(r_args.claims_summary,
                        r_args.verification_summary, r_args.credibility_summary))


(***************************************************************************)
(* Properties of advance invocations that run at the same time             *)
(* (SpecConcurrent).                                                       *)
(***************************************************************************)
PhaseAdvancedEvents == SelectSeq(events, LAMBDA e : e.event_type = "phase_advanced")

\* C27: under every interleaving of advance invocations on one brief the read
\* of the status and the write of the next status are one atomic step: a
\* completed brief is never written back to in_progress, and each phase
\* change is recorded by exactly one phase_advanced event.
C27_ReadAndWriteAtomic ==
    /\ [][status = COMPLETED => status' # IN_PROGRESS]_vars
    /\ [][\A i \in 1..MaxCalls :
            UpdateBriefStatusOfCall(i) => a_calls[i].current_status = status]_vars
    /\ [](\A i, j \in 1..Len(PhaseAdvancedEvents) :
            (/\ PhaseAdvancedEvents[i].old_status = PhaseAdvancedEvents[j].old_status
             /\ PhaseAdvancedEvents[i].new_status = PhaseAdvancedEvents[j].new_status)
            => i = j)


(***************************************************************************)
(* Properties of the phase controller: the two implementations, and the    *)
(* size of a step.                                                         *)
(***************************************************************************)
AdvanceOps == {"advance_research_phase", "advance_phase"}

\* C28: for every status, completion percentage, number of verified items and
\* force flag, advance_phase under PodcastOrchestratorAgent decides as
\* advance_research_phase does with its literal thresholds 80.0 and 5: the
\* same next phase, the same readiness (so the same phase_changed and the
\* same status update), and neither raises where the other does not.
C28_ToolDecidesAsServer ==
    status \in ResearchStatus =>
        \A force_advance \in BOOLEAN :
            LET progress == get_research_progress(rows.total, rows.completed, rows.verified)
                tool == ToolPhaseLogic(status, progress, force_advance)
                server == ServerPhaseLogic(status, progress, force_advance)
            IN  /\ tool.raised = server.raised
                /\ tool.next_phase = server.next_phase
                /\ tool.ready_to_advance = server.ready_to_advance

OneStepFrom(current_status) ==
    IF current_status = PENDING THEN {IN_PROGRESS}
    ELSE IF current_status = IN_PROGRESS THEN {COMPLETED}
    ELSE {}

\* C29: an advance invocation moves the brief by at most one step along
\* pending -> in_progress -> completed; on a pending brief whose status is
\* read and written, the status becomes in_progress whatever the metrics and
\* the force flag are (force never skips to completed); advance never sets a
\* brief to failed.
C29_AtMostOneStep ==
    [][lastOp'.name \in AdvanceOps =>
        /\ status' \in {status} \cup OneStepFrom(status)
        /\ (status = PENDING /\ lastOp'.fault \notin {"get_brief", "update_brief_status"})
                => status' = IN_PROGRESS
        /\ status' = FAILED => status = FAILED]_vars

\* a forced advance on a pending brief whose metrics meet the gate has moved
\* it to in_progress
C29_Witness ==
    /\ lastOp.name \in AdvanceOps
    /\ lastOp.force_advance
    /\ GateMet(get_research_progress(rows.total, rows.completed, rows.verified),
               SERVER_COMPLETION_THRESHOLD, SERVER_MIN_VERIFIED_ITEMS)
    /\ reply.phase_changed
    /\ reply.old_phase = PENDING
    /\ status = IN_PROGRESS
    /\ changes = <<Change(PENDING, IN_PROGRESS)>>


(***************************************************************************)
(* Properties of process_query: arguments that are not valid JSON.         *)
(***************************************************************************)
\* the arguments string of the i-th invocation, as the model emitted it
EmittedArguments(i) ==
    FunctionCallEvent(model, invocations[i].iteration, 1).arguments

InvalidArguments(i) == ~json_loads(EmittedArguments(i)).ok

\* C30: when the arguments string of a requested tool call is not valid JSON
\* the planning loop does not abort: the tool is invoked with an empty
\* mapping, and the transcript receives the function_call entry with the
\* original arguments string, followed by its function_call_output entry.
C30_InvalidArgumentsBecomeEmpty ==
    /\ \A i \in 1..Len(invocations) :
          InvalidArguments(i) =>
             /\ invocations[i].args = JDict(<<>>)
             /\ ~invocations[i].raised =>
                   LET at == invocations[i].seen
                   IN  /\ Len(messages) >= at + 2
                       /\ messages[at + 1].type = "function_call"
                       /\ messages[at + 1].arguments = EmittedArguments(i)
                       /\ messages[at + 1].call_id = invocations[i].call_id
                       /\ messages[at + 2].type = "function_call_output"
                       /\ messages[at + 2].call_id = invocations[i].call_id
    /\ l_pc = "aborted" =>
          invocations # <<>> /\ invocations[Len(invocations)].raised

\* a run whose tool calls all carried arguments that are not valid JSON has
\* invoked two tools and gone on to its final answer
C30_Witness ==
    /\ l_pc = "done"
    /\ Len(invocations) >= 2
    /\ \A i \in 1..Len(invocations) :
          /\ InvalidArguments(i)
          /\ ~invocations[i].raised
          /\ invocations[i].args = JDict(<<>>)
    /\ returned.kind = "str"

=============================================================================
